---------------------------- MODULE Spec2Model ----------------------------
(***************************************************************************)
(* A model of the MimicRL support library:                                 *)
(*   - DemonstrationCollector  (src/bc/DemonstrationCollector.ts)          *)
(*   - DemonstrationStorage    (src/unnamed/part_001)                      *)
(*   - ModelManager            (src/utils/ModelManager.ts)                 *)
(*   - TrainingVisualizer      (src/visualization/TrainingVisualizer.js)   *)
(*   - BehaviorCloningTrainer  (src/unnamed/part_003)                      *)
(* Each component has its own next-state relation and specification; the   *)
(* variables of the other components stay unchanged under it.              *)
(***************************************************************************)
EXTENDS Integers, Sequences, FiniteSets, TLC

(***************************************************************************)
(* Bounds of the model.                                                    *)
(***************************************************************************)
\* recordStep calls made on one collector
MaxSteps == 3
\* startEpisode calls made on one collector
MaxEpisodes == 2
\* steps of a demonstration dataset given to saveDataset
MaxDsSteps == 1
\* milliseconds Date.now() advances while a DemonstrationStorage is in use
MaxClock == 1
\* largest maxDataPoints option given to a TrainingVisualizer
MaxPointsOption == 2
\* updateMetrics calls made on one TrainingVisualizer
MaxUpdates == 4
\* saveModel / loadModel calls made on one ModelManager
MaxCalls == 3
\* IndexedDB requests that end with an error
MaxIdbErrors == 1
\* train() calls made on one BehaviorCloningTrainer
MaxTrains == 2
\* largest config.epochs of a BehaviorCloningTrainer
MaxEpochs == 2
\* largest config.batchSize of a BehaviorCloningTrainer
MaxBatchSize == 2
\* steps of a dataset given to train()
MaxSamples == 3
\* steps of a dataset long enough for a yield in the middle of an epoch
MaxLongSamples == 12
\* entries of architecture.hiddenLayers
MaxHiddenLayers == 2
\* units of a hidden layer
MaxUnits == 2
\* numRollouts of a TrainingSession
NumRollouts == 2
\* maxGames of a TrainingSession
MaxGames == 2
\* step budget of one rollout
MaxRolloutSteps == 2
\* mini-batch steps of one optimization phase
MaxTrainSteps == 2

(***************************************************************************)
(* Constants of the program.                                               *)
(***************************************************************************)
\* options.maxDataPoints || 100
DefaultMaxDataPoints == 100
\* trainEpoch yields when i % 10 === 0
YieldEvery == 10

VARIABLES
  \* ---- DemonstrationCollector ----
  dcAutoRecord,     \* this.autoRecord
  dcMaxBufferSize,  \* this.maxBufferSize
  dcCurrent,        \* this.currentEpisode (NoEpisode for null)
  dcBuffer,         \* this.episodeBuffer
  dcRecording,      \* this.isRecording
  dcObs,            \* history of the calls made on the collector
  \* ---- DemonstrationStorage ----
  dsIsBrowser,      \* this.isBrowser
  dsEnvStorage,     \* window and localStorage are defined now
  dsLocalStorage,   \* localStorage: key -> stored JSON text
  dsClock,          \* Date.now()
  dsSaved,          \* history: key -> the dataset last saved under it and not deleted
  dsLast,           \* the last call and its result
  \* ---- TrainingVisualizer ----
  tvMaxDataPoints,  \* this.options.maxDataPoints
  tvShowCompletionRate, \* this.options.showCompletionRate
  tvTrainingSession, \* this.trainingSession: "null" or the session attached
  tvWindowChart,    \* typeof window.Chart, "undefined" when not set
  tvGlobalChart,    \* the global identifier Chart: "unbound" or its typeof
  tvCharts,         \* this.rewardChart, lengthChart, completionChart, policyChart
  tvBatchNumber,    \* this.batchNumber
  tvIsInitialized,  \* this.isInitialized
  tvStats,          \* the summary statistics shown
  tvObs,            \* history of the calls made on the visualizer
  \* ---- ModelManager ----
  mmLocalStorage,   \* localStorage: key -> stored JSON text
  mmModelsStore,    \* IndexedDB object store 'models': id -> record
  mmSessionsStore,  \* IndexedDB object store 'sessions', if there is one: id -> record
  mmDb,             \* this.db is set (the open request of the constructor succeeded)
  mmMicrotasks,     \* calls waiting to continue in a microtask, in order
  mmRequests,       \* IndexedDB requests not yet completed, in order
  mmCalls,          \* the saveModel / loadModel calls: position and result
  mmObs,            \* history of the completed calls
  \* ---- BehaviorCloningTrainer ----
  bcConfig,         \* this.config: epochs, batchSize, validationSplit (percent)
  bcHidden,         \* document.hidden
  bcYieldChannelResolve, \* this.yieldChannelResolve: 0 for null, else the call
                    \* whose pending yield it resolves
  bcMessages,       \* messages posted on port2 and not yet delivered to port1
  bcTimers,         \* setTimeout(resolve, 0) timers not yet fired, in order
  bcMicrotasks,     \* train() calls waiting to continue in a microtask, in order
  bcCalls,          \* the train() calls: position, epoch, batch index
  bcStats,          \* this.trainingStats: epoch, step
  \* ---- NetworkUtils ----
  nuArchitecture,   \* the architecture given to serializeNetwork
  nuModel,          \* the model given to serializeNetwork
  nuSerialized,     \* what serializeNetwork returned
  nuLoaded,         \* what loadNetworkFromSerialized returned, or that it threw
  nuPc,             \* "start", "serialized", "loaded"
  \* ---- TrainingSession ----
  tsLifecycleState, \* "Idle", "Initializing", "Running", "Paused", "Stopped"
  tsPhase,          \* where the loop is: "boundary", "collect", "train"
  tsRollouts,       \* per environment instance: steps buffered, status
  tsTrainStep,      \* mini-batch steps done in the optimization phase
  tsGamesCompleted, \* gamesCompleted
  tsParked,         \* the loop has observed a pause request and waits
  tsObs             \* history: done transitions seen, last call, its outcome

dcVars == <<dcAutoRecord, dcMaxBufferSize, dcCurrent, dcBuffer, dcRecording, dcObs>>

dsVars == <<dsIsBrowser, dsEnvStorage, dsLocalStorage, dsClock, dsSaved, dsLast>>

tvVars == <<tvMaxDataPoints, tvShowCompletionRate, tvTrainingSession, tvWindowChart, tvGlobalChart, tvCharts, tvBatchNumber,
           tvIsInitialized, tvStats, tvObs>>

mmVars == <<mmLocalStorage, mmModelsStore, mmSessionsStore, mmDb, mmMicrotasks,
           mmRequests, mmCalls, mmObs>>

bcVars == <<bcConfig, bcHidden, bcYieldChannelResolve, bcMessages, bcTimers,
           bcMicrotasks, bcCalls, bcStats>>

nuVars == <<nuArchitecture, nuModel, nuSerialized, nuLoaded, nuPc>>

tsVars == <<tsLifecycleState, tsPhase, tsRollouts, tsTrainStep,
            tsGamesCompleted, tsParked, tsObs>>

vars == <<dcVars, dsVars, tvVars, mmVars, bcVars, nuVars, tsVars>>

\* what the operations of one class leave alone: the other classes' state
dcFrame == <<dsVars, tvVars, mmVars, bcVars, nuVars, tsVars>>
dsFrame == <<dcVars, tvVars, mmVars, bcVars, nuVars, tsVars>>
tvFrame == <<dcVars, dsVars, mmVars, bcVars, nuVars, tsVars>>
mmFrame == <<dcVars, dsVars, tvVars, bcVars, nuVars, tsVars>>
bcFrame == <<dcVars, dsVars, tvVars, mmVars, nuVars, tsVars>>
nuFrame == <<dcVars, dsVars, tvVars, mmVars, bcVars, tsVars>>
tsFrame == <<dcVars, dsVars, tvVars, mmVars, bcVars, nuVars>>

(***************************************************************************)
(* DemonstrationCollector                                                  *)
(***************************************************************************)
EpisodeIds == {"e1", "e2"}

\* null
NoEpisode == [id |-> "null", steps |-> <<>>, ended |-> FALSE]

\* A DemonstrationStep: the observation is the number of the recordStep call
\* that passed it, metadata.stepIndex is the position in the episode.
NewStep(n, episode) == [observation |-> n, stepIndex |-> Len(episode.steps)]

\* getEpisodes(): a copy of the buffer
getEpisodes == dcBuffer

\* What the history records: the calls made so far and their results.
DcObsInit ==
  [ lastOp       |-> "none",
    calls        |-> 0,        \* recordStep calls so far
    starts       |-> 0,        \* startEpisode calls so far
    sinceStart   |-> <<>>,     \* steps passed to recordStep since startEpisode
    bufAtStart   |-> <<>>,     \* getEpisodes() right after the last startEpisode
    onlySteps    |-> FALSE,    \* only recordStep calls since the last startEpisode
    started      |-> FALSE,    \* startEpisode called and not yet ended/discarded
    returned     |-> NoEpisode,\* result of the last endEpisode
    wasRecording |-> FALSE,    \* isRecording before the last recordStep
    recorded     |-> FALSE,    \* the last recordStep stored its step
    whileRecording |-> <<>>,   \* recordStep calls made while isRecording
    dropped      |-> FALSE ]   \* discardEpisode or clearEpisodes was called

\* new DemonstrationCollector(config)
DcConstructed(autoRecord, maxBufferSize) ==
  /\ dcAutoRecord = autoRecord
  /\ dcMaxBufferSize = maxBufferSize
  /\ dcCurrent = NoEpisode
  /\ dcBuffer = <<>>
  /\ dcRecording = FALSE
  /\ dcObs = DcObsInit

DcInit == \E a \in BOOLEAN, m \in 2..3 : DcConstructed(a, m)

\* the collector when another class is run
DcIdle == DcConstructed(FALSE, 2)

\* a flush that leaves the flushed steps in the current episode
flushKeepsSteps(cur, buf) ==
  IF cur # NoEpisode /\ Len(cur.steps) > 0
  THEN [cur |-> cur, buf |-> Append(buf, cur)]
  ELSE [cur |-> cur, buf |-> buf]

\* flushCurrentEpisode as a function of (currentEpisode, episodeBuffer):
\* the pair after the call
flushCurrentEpisode(cur, buf) ==
  IF cur # NoEpisode /\ Len(cur.steps) > 0
  THEN [cur |-> [id |-> cur.id, steps |-> <<>>, ended |-> cur.ended],
        buf |-> Append(buf, cur)]
  ELSE [cur |-> cur, buf |-> buf]

\* endEpisode as a function of the state: the state after and the result
endEpisode(cur, buf, rec) ==
  IF ~rec \/ cur = NoEpisode
  THEN [cur |-> cur, buf |-> buf, rec |-> rec, result |-> NoEpisode]
  ELSE LET episode == [cur EXCEPT !.ended = TRUE]
       IN [cur |-> NoEpisode, buf |-> Append(buf, episode), rec |-> FALSE,
           result |-> episode]

DcStartEpisode(id) ==
  /\ dcObs.starts < MaxEpisodes
  /\ LET e == IF dcRecording THEN endEpisode(dcCurrent, dcBuffer, dcRecording)
              ELSE [cur |-> dcCurrent, buf |-> dcBuffer, rec |-> dcRecording,
                    result |-> NoEpisode]
     IN /\ dcCurrent' = [id |-> id, steps |-> <<>>, ended |-> FALSE]
        /\ dcBuffer' = e.buf
        /\ dcRecording' = TRUE
        /\ dcObs' = [dcObs EXCEPT !.lastOp = "startEpisode",
                                  !.starts = @ + 1,
                                  !.sinceStart = <<>>,
                                  !.bufAtStart = e.buf,
                                  !.onlySteps = TRUE,
                                  !.started = TRUE]
  /\ UNCHANGED <<dcFrame, dcAutoRecord, dcMaxBufferSize>>

DcRecordStep ==
  /\ dcObs.calls < MaxSteps
  /\ LET n == dcObs.calls + 1
         obs == [dcObs EXCEPT !.lastOp = "recordStep",
                              !.calls = n,
                              !.wasRecording = dcRecording,
                              !.whileRecording =
                                 IF dcRecording THEN Append(@, n) ELSE @,
                              !.sinceStart = IF dcObs.started THEN Append(@, n) ELSE @]
     IN IF ~dcRecording \/ dcCurrent = NoEpisode
        THEN /\ dcObs' = [obs EXCEPT !.recorded = FALSE]
             /\ UNCHANGED <<dcCurrent, dcBuffer>>
        ELSE LET pushed == [dcCurrent EXCEPT
                              !.steps = Append(@, NewStep(n, dcCurrent))]
                 f == IF Len(pushed.steps) >= dcMaxBufferSize
                      THEN flushCurrentEpisode(pushed, dcBuffer)
                      ELSE [cur |-> pushed, buf |-> dcBuffer]
             IN /\ dcCurrent' = f.cur
                /\ dcBuffer' = f.buf
                /\ dcObs' = [obs EXCEPT !.recorded = TRUE]
  /\ UNCHANGED <<dcFrame, dcAutoRecord, dcMaxBufferSize, dcRecording>>

DcEndEpisode ==
  /\ LET e == endEpisode(dcCurrent, dcBuffer, dcRecording)
     IN /\ dcCurrent' = e.cur
        /\ dcBuffer' = e.buf
        /\ dcRecording' = e.rec
        /\ dcObs' = [dcObs EXCEPT !.lastOp = "endEpisode",
                                  !.returned = e.result,
                                  !.onlySteps = FALSE,
                                  !.started = FALSE]
  /\ UNCHANGED <<dcFrame, dcAutoRecord, dcMaxBufferSize>>

DcDiscardEpisode ==
  /\ dcCurrent' = NoEpisode
  /\ dcRecording' = FALSE
  /\ dcObs' = [dcObs EXCEPT !.lastOp = "discardEpisode", !.started = FALSE,
                            !.dropped = TRUE]
  /\ UNCHANGED <<dcFrame, dcAutoRecord, dcMaxBufferSize, dcBuffer>>

DcClearEpisodes ==
  /\ dcBuffer' = <<>>
  /\ dcObs' = [dcObs EXCEPT !.lastOp = "clearEpisodes", !.onlySteps = FALSE,
                            !.dropped = TRUE]
  /\ UNCHANGED <<dcFrame, dcAutoRecord, dcMaxBufferSize, dcCurrent, dcRecording>>

DcNext ==
  \/ \E id \in EpisodeIds : DcStartEpisode(id)
  \/ DcRecordStep
  \/ DcEndEpisode
  \/ DcDiscardEpisode
  \/ DcClearEpisodes

\* The observations of an episode's steps, in order
StepObservations(episode) ==
  [i \in 1..Len(episode.steps) |-> episode.steps[i].observation]

\* C5: endEpisode returns the completed demonstration: the returned episode
\* holds every step passed to recordStep since the matching startEpisode, in
\* call order, for any number of recorded steps.
C5_EndEpisodeReturnsAllSteps ==
  (dcObs.lastOp = "endEpisode" /\ dcObs.returned # NoEpisode)
    => StepObservations(dcObs.returned) = dcObs.sinceStart

\* C6: after startEpisode, any number of recordStep calls and then
\* discardEpisode, getEpisodes() is what it was right after that startEpisode
\* and the collector is not recording.
C6_DiscardLeavesBuffer ==
  (dcObs.lastOp = "discardEpisode" /\ dcObs.onlySteps)
    => (getEpisodes = dcObs.bufAtStart /\ ~dcRecording)

\* C7: with autoRecord = true every recordStep call is recorded, without an
\* explicit startEpisode; with autoRecord = false a step is recorded exactly
\* when recording had been enabled by startEpisode.
C7_AutoRecordControlsRecording ==
  dcObs.lastOp = "recordStep"
    => IF dcAutoRecord THEN dcObs.recorded
       ELSE (dcObs.recorded <=> dcObs.wasRecording)

\* The observations of the steps of the episodes of a buffer, in buffer order
RECURSIVE BufferedObservations(_)
BufferedObservations(buf) ==
  IF buf = <<>> THEN <<>>
  ELSE StepObservations(Head(buf)) \o BufferedObservations(Tail(buf))

\* The steps the collector holds: those of the buffered episodes, then
\* those of the episode in progress
HeldObservations ==
  BufferedObservations(dcBuffer) \o StepObservations(dcCurrent)

\* C20: as long as discardEpisode and clearEpisodes have not been called,
\* the steps of the buffered episodes followed by those of the episode in
\* progress are the recordStep calls made while recording, in call order.
C20_StepConservation ==
  ~dcObs.dropped => HeldObservations = dcObs.whileRecording

\* C20 witness: three steps were recorded, the episode was flushed at
\* maxBufferSize after the second, and a second startEpisode ended it
C20_Witness ==
  /\ ~dcObs.dropped
  /\ dcObs.lastOp = "startEpisode"
  /\ dcObs.starts = 2
  /\ dcObs.whileRecording = <<1, 2, 3>>
  /\ Len(dcBuffer) = 2
  /\ ~dcBuffer[1].ended
  /\ dcBuffer[2].ended
  /\ dcCurrent.steps = <<>>

(***************************************************************************)
(* JSON.stringify / JSON.parse on the values the library stores.           *)
(* A number is "1" (finite), "NaN" (not finite); JSON has no NaN or        *)
(* Infinity: JSON.stringify writes null for them, and JSON.parse gives     *)
(* back the value null.                                                    *)
(***************************************************************************)
Numbers == {"1", "NaN"}

JsonStringifyNumber(v) == IF v = "NaN" THEN "null" ELSE v

JsonParseToken(tok) == tok

\* a value holds only what JSON can represent
JsonRepresentable(seq) == \A i \in 1..Len(seq) : seq[i] # "NaN"

(***************************************************************************)
(* DemonstrationStorage                                                    *)
(***************************************************************************)
\* A DemonstrationDataset: the observations of its steps, in order.
SeqsUpTo(S, n) == UNION {[1..k -> S] : k \in 0..n}

Datasets == [steps : SeqsUpTo(Numbers, MaxDsSteps)]

JsonStringify(dataset) ==
  [json |-> [i \in 1..Len(dataset.steps) |-> JsonStringifyNumber(dataset.steps[i])]]

JsonParse(text) ==
  [steps |-> [i \in 1..Len(text.json) |-> JsonParseToken(text.json[i])]]

\* filename: the caller's, or demonstrations_<Date.now()>.json
GivenFilename == [name |-> "a.json", timestamp |-> 0]
AutoFilename(now) == [name |-> "demonstrations_.json", timestamp |-> now]
Filenames == {GivenFilename} \cup {AutoFilename(t) : t \in 0..MaxClock}

\* `${this.storageKey}_${filename}`
DsKey(filename) == [storageKey |-> "mimicrl_demonstrations", filename |-> filename]
DsKeys == {DsKey(f) : f \in Filenames}

\* localStorage.setItem(key, value)
SetItemIfAbsent(ls, key, value) ==
  IF key \in DOMAIN ls THEN ls
  ELSE [k \in DOMAIN ls \cup {key} |-> IF k = key THEN value ELSE ls[k]]

SetItem(ls, key, value) ==
  [k \in DOMAIN ls \cup {key} |-> IF k = key THEN value ELSE ls[k]]

\* localStorage.removeItem(key)
RemoveItem(ls, key) == [k \in DOMAIN ls \ {key} |-> ls[k]]

NoDataset == [steps |-> <<"undefined">>]

\* typeof window !== 'undefined' && typeof localStorage !== 'undefined'
DetectBrowser(env) == env

\* the branch a method would take if it looked at the environment itself
isBrowserNow == dsEnvStorage

\* this.isBrowser, as the methods read it
isBrowser == dsIsBrowser

\* loadDataset(key): what it returns, or that it throws
loadDataset(key) ==
  IF isBrowser
  THEN IF key \in DOMAIN dsLocalStorage
       THEN [threw |-> FALSE, value |-> JsonParse(dsLocalStorage[key])]
       ELSE [threw |-> TRUE, value |-> NoDataset]
  ELSE [threw |-> TRUE, value |-> NoDataset]

\* new DemonstrationStorage(config)
DsConstructed(env) ==
  /\ dsEnvStorage = env
  /\ dsIsBrowser = DetectBrowser(env)
  /\ dsLocalStorage = <<>>
  /\ dsClock = 0
  /\ dsSaved = <<>>
  /\ dsLast = [op |-> "none", key |-> DsKey(GivenFilename), threw |-> FALSE,
               value |-> NoDataset, keys |-> {}, size |-> 0, env |-> env]

DsInit == \E b \in BOOLEAN : DsConstructed(b)

\* the storage when another class is run
DsIdle == DsConstructed(TRUE)

DsSaveDataset(dataset, given) ==
  LET filename == IF given THEN GivenFilename ELSE AutoFilename(dsClock)
      key == DsKey(filename)
  IN /\ IF isBrowser
        THEN /\ dsLocalStorage' = SetItem(dsLocalStorage, key, JsonStringify(dataset))
             /\ dsSaved' = [k \in DOMAIN dsSaved \cup {key} |->
                              IF k = key THEN dataset ELSE dsSaved[k]]
             /\ dsLast' = [op |-> "saveDataset", key |-> key, threw |-> FALSE,
                           value |-> NoDataset, keys |-> {}, size |-> 0,
                           env |-> dsEnvStorage]
        ELSE /\ dsLast' = [op |-> "saveDataset", key |-> key, threw |-> TRUE,
                           value |-> NoDataset, keys |-> {}, size |-> 0,
                           env |-> dsEnvStorage]
             /\ UNCHANGED <<dsLocalStorage, dsSaved>>
     /\ UNCHANGED <<dsFrame, dsIsBrowser, dsEnvStorage, dsClock>>

DsLoadDataset(key) ==
  /\ dsLast' = [op |-> "loadDataset", key |-> key,
                threw |-> loadDataset(key).threw, value |-> loadDataset(key).value,
                keys |-> {}, size |-> 0, env |-> dsEnvStorage]
  /\ UNCHANGED <<dsFrame, dsIsBrowser, dsEnvStorage, dsLocalStorage, dsClock, dsSaved>>

DsDeleteDataset(key) ==
  /\ IF isBrowser
     THEN /\ dsLocalStorage' = RemoveItem(dsLocalStorage, key)
          /\ dsSaved' = [k \in DOMAIN dsSaved \ {key} |-> dsSaved[k]]
          /\ dsLast' = [op |-> "deleteDataset", key |-> key, threw |-> FALSE,
                        value |-> NoDataset, keys |-> {}, size |-> 0,
                        env |-> dsEnvStorage]
     ELSE /\ dsLast' = [op |-> "deleteDataset", key |-> key, threw |-> TRUE,
                        value |-> NoDataset, keys |-> {}, size |-> 0,
                        env |-> dsEnvStorage]
          /\ UNCHANGED <<dsLocalStorage, dsSaved>>
  /\ UNCHANGED <<dsFrame, dsIsBrowser, dsEnvStorage, dsClock>>

\* time passes
DsTick ==
  /\ dsClock < MaxClock
  /\ dsClock' = dsClock + 1
  /\ UNCHANGED <<dsFrame, dsIsBrowser, dsEnvStorage, dsLocalStorage, dsSaved, dsLast>>

\* the keys of localStorage that start with storageKey + '_': every key of
\* the model does
OwnKeys(ls) == DOMAIN ls

\* the sum of value.length over a set of keys, the length of a stored text
\* counted in numbers
RECURSIVE TotalLength(_, _)
TotalLength(ls, keys) ==
  IF keys = {} THEN 0
  ELSE LET k == CHOOSE x \in keys : TRUE
       IN Len(ls[k].json) + TotalLength(ls, keys \ {k})

\* listDatasets()
DsListDatasets ==
  /\ dsLast' = [op |-> "listDatasets", key |-> DsKey(GivenFilename),
                threw |-> ~isBrowser, value |-> NoDataset,
                keys |-> IF isBrowser THEN OwnKeys(dsLocalStorage) ELSE {},
                size |-> 0, env |-> dsEnvStorage]
  /\ UNCHANGED <<dsFrame, dsIsBrowser, dsEnvStorage, dsLocalStorage, dsClock, dsSaved>>

\* createDataset(episodes, gameCoreInfo)
DsCreateDataset(dataset) ==
  /\ dsLast' = [op |-> "createDataset", key |-> DsKey(GivenFilename),
                threw |-> FALSE, value |-> dataset, keys |-> {}, size |-> 0,
                env |-> dsEnvStorage]
  /\ UNCHANGED <<dsFrame, dsIsBrowser, dsEnvStorage, dsLocalStorage, dsClock, dsSaved>>

\* getStorageSize()
DsGetStorageSize ==
  /\ dsLast' = [op |-> "getStorageSize", key |-> DsKey(GivenFilename),
                threw |-> FALSE, value |-> NoDataset, keys |-> {},
                size |-> IF isBrowser
                         THEN TotalLength(dsLocalStorage, OwnKeys(dsLocalStorage))
                         ELSE 0,
                env |-> dsEnvStorage]
  /\ UNCHANGED <<dsFrame, dsIsBrowser, dsEnvStorage, dsLocalStorage, dsClock, dsSaved>>

\* window and localStorage are defined after the storage was constructed
\* without them
DsEnvironmentGainsStorage ==
  /\ ~dsEnvStorage
  /\ dsEnvStorage' = TRUE
  /\ UNCHANGED <<dsFrame, dsIsBrowser, dsLocalStorage, dsClock, dsSaved, dsLast>>

DsNext ==
  \/ \E d \in Datasets, given \in BOOLEAN : DsSaveDataset(d, given)
  \/ \E k \in DsKeys : DsLoadDataset(k)
  \/ \E k \in DsKeys : DsDeleteDataset(k)
  \/ DsListDatasets
  \/ \E d \in Datasets : DsCreateDataset(d)
  \/ DsGetStorageSize
  \/ DsEnvironmentGainsStorage
  \/ DsTick

\* C8 (as stated): in a browser, loadDataset(k), with k returned by
\* saveDataset(d) and neither deleted nor saved again since, returns a dataset
\* equal to d.
C8_SaveLoadRoundTrip ==
  (dsIsBrowser /\ dsLast.op = "loadDataset" /\ dsLast.key \in DOMAIN dsSaved)
    => (~dsLast.threw /\ dsLast.value = dsSaved[dsLast.key])

\* C8 (amended): in a browser, loadDataset(k), with k returned by
\* saveDataset(d) and neither deleted nor saved again since, returns
\* JSON.parse(JSON.stringify(d)), which is equal to d when d holds only what
\* JSON can represent (a NaN or infinite number comes back as null).
C8_SaveLoadRoundTripJson ==
  (dsIsBrowser /\ dsLast.op = "loadDataset" /\ dsLast.key \in DOMAIN dsSaved)
    => LET d == dsSaved[dsLast.key]
       IN /\ ~dsLast.threw
          /\ dsLast.value = JsonParse(JsonStringify(d))
          /\ JsonRepresentable(d.steps) => dsLast.value = d

\* C8 witness: a dataset with a step was saved under a key, another dataset
\* was saved under another key after it, and loading the first key returned it.
C8_Witness ==
  /\ dsIsBrowser
  /\ dsLast.op = "loadDataset"
  /\ ~dsLast.threw
  /\ dsLast.key \in DOMAIN dsSaved
  /\ Cardinality(DOMAIN dsSaved) >= 2
  /\ Len(dsLast.value.steps) > 0
  /\ dsLast.value = dsSaved[dsLast.key]

\* the operations that need the storage backend
BackendOps == {"saveDataset", "loadDataset", "listDatasets", "deleteDataset"}

ChartNames == {"reward", "length", "completion", "policy"}

\* null
NoChart == [created |-> FALSE, labels |-> <<>>, datasets |-> <<>>]

\* new ChartConstructor(ctx, {data: {labels: [], datasets: [...]}}): the
\* reward and policy charts have three datasets, the other two have one
DatasetCount(name) == IF name \in {"reward", "policy"} THEN 3 ELSE 1

NewChart(name) ==
  [created |-> TRUE, labels |-> <<>>, datasets |-> [i \in 1..DatasetCount(name) |-> <<>>]]

\* The options of the constructor: maxDataPoints absent, or given as a number.
\*   { maxDataPoints: options.maxDataPoints || 100, ..., ...options }
MaxDataPointsOptions ==
  {[given |-> FALSE, value |-> 0]} \cup {[given |-> TRUE, value |-> n] : n \in 0..MaxPointsOption}

ResolveMaxDataPoints(option) ==
  LET defaulted == IF option.given /\ option.value # 0 THEN option.value
                   ELSE DefaultMaxDataPoints
  IN IF option.given THEN option.value ELSE defaulted

\* The metrics objects passed to updateMetrics.
NullMetrics == [null |-> TRUE, gamesCompleted |-> 0, avg |-> 0, min |-> 0, max |-> 0,
                averageGameLength |-> 0, winRate |-> 0, policyEntropy |-> 0,
                policyLoss |-> 0, valueLoss |-> 0]

MetricsOf(games, v) ==
  [null |-> FALSE, gamesCompleted |-> games, avg |-> v, min |-> v - 1, max |-> v + 1,
   averageGameLength |-> 10 * v, winRate |-> v - 1, policyEntropy |-> v,
   policyLoss |-> v + 2, valueLoss |-> v + 4]

MetricsSet == {NullMetrics} \cup {MetricsOf(g, v) : g \in {0, 2}, v \in {1, 2}}

\* calculateBatchStats(metrics), with the episode length in steps: the values
\* each chart appends to its datasets
calculateBatchStats(metrics) ==
  [ reward     |-> <<metrics.avg, metrics.min, metrics.max>>,
    length     |-> <<metrics.averageGameLength>>,
    completion |-> <<metrics.winRate * 100>>,
    policy     |-> <<metrics.policyEntropy, metrics.policyLoss, metrics.valueLoss>> ]

\* the statistics updateSummaryStats shows
SummaryOf(metrics) ==
  [games |-> metrics.gamesCompleted, avgReward |-> metrics.avg,
   bestReward |-> metrics.max, completion |-> metrics.winRate * 100]

NoSummary == [games |-> 0, avgReward |-> 0, bestReward |-> 0, completion |-> 0]

\* array.shift()
Shift(seq) == IF seq = <<>> THEN <<>> ELSE Tail(seq)

\* "Keep only last N points": when labels is longer than maxDataPoints, shift
\* the labels and every dataset
KeepLastLabelsOnly(chart, maxDataPoints) ==
  IF Len(chart.labels) > maxDataPoints
  THEN [chart EXCEPT !.labels = Shift(@)]
  ELSE chart

KeepLast(chart, maxDataPoints) ==
  IF Len(chart.labels) > maxDataPoints
  THEN [chart EXCEPT !.labels = Shift(@),
                     !.datasets = [i \in DOMAIN @ |-> Shift(@[i])]]
  ELSE chart

\* updateRewardChart / updateLengthChart / updateCompletionChart /
\* updatePolicyChart: the chart after the call
updateChart(chart, batchNumber, values, maxDataPoints) ==
  IF ~chart.created THEN chart
  ELSE KeepLast([chart EXCEPT !.labels = Append(@, batchNumber),
                              !.datasets = [i \in DOMAIN @ |-> Append(@[i], values[i])]],
                maxDataPoints)

\* const ChartConstructor = window.Chart || Chart;
\* "ReferenceError" when window.Chart is falsy and no global Chart is bound
ChartConstructor ==
  IF tvWindowChart # "undefined" THEN tvWindowChart
  ELSE IF tvGlobalChart = "unbound" THEN "ReferenceError"
  ELSE tvGlobalChart

TvObsInit ==
  [ lastOp   |-> "none",
    updates  |-> 0,       \* updateMetrics calls so far
    threw    |-> FALSE,   \* the last call threw
    noChart  |-> FALSE,   \* no Chart constructor was loaded at the last call
    metrics  |-> NullMetrics, \* the argument of the last updateMetrics
    statusOnly |-> FALSE, \* the last delivery of the session was _statusOnly
    points   |-> [n \in ChartNames |-> <<>>] ]
                          \* per chart: the points appended since it was
                          \* created or reset, as <<label, values>>

\* options.showCompletionRate !== false, then ...options: show is the option
\* given, "absent" when it is not
ResolveShowCompletionRate(show) == show # "false"

\* new TrainingVisualizer(container, options)
TvConstructed(option, show, windowChart, globalChart) ==
  /\ tvMaxDataPoints = ResolveMaxDataPoints(option)
  /\ tvShowCompletionRate = ResolveShowCompletionRate(show)
  /\ tvTrainingSession = "null"
  /\ tvWindowChart = windowChart
  /\ tvGlobalChart = globalChart
  /\ tvCharts = [n \in ChartNames |-> NoChart]
  /\ tvBatchNumber = 0
  /\ tvIsInitialized = FALSE
  /\ tvStats = NoSummary
  /\ tvObs = TvObsInit

TvInit ==
  \E o \in MaxDataPointsOptions, s \in {"absent", "false"},
     w \in {"undefined", "function", "object"}, g \in {"unbound", "function"} :
    TvConstructed(o, s, w, g)

\* the visualizer when another class is run
TvIdle == TvConstructed([given |-> FALSE, value |-> 0], "absent", "function", "function")

\* every metrics object is charted
HasValidDataAlways(metrics) == TRUE

\* "only if we have valid data"
HasValidData(metrics) == metrics.gamesCompleted > 0

\* updateMetrics(metrics), called by the page (op = "updateMetrics") or by
\* the callback of the session (op = "onTrainingProgress")
updateMetrics(metrics, op) ==
  /\ LET obs == [tvObs EXCEPT !.lastOp = op, !.updates = @ + 1,
                              !.metrics = metrics,
                              !.statusOnly = FALSE,
                              !.noChart = (tvWindowChart = "undefined"
                                           /\ tvGlobalChart = "unbound")]
     IN IF metrics.null
        THEN \* if (!metrics) return
             /\ tvObs' = [obs EXCEPT !.threw = FALSE]
             /\ UNCHANGED <<tvCharts, tvBatchNumber, tvIsInitialized, tvStats>>
        ELSE /\ tvStats' = SummaryOf(metrics)
             /\ IF HasValidData(metrics)
                THEN /\ tvBatchNumber' = tvBatchNumber + 1
                     /\ IF ~tvIsInitialized /\ ChartConstructor = "ReferenceError"
                        THEN \* initializeCharts throws before its try block
                             /\ tvObs' = [obs EXCEPT !.threw = TRUE]
                             /\ UNCHANGED <<tvCharts, tvIsInitialized>>
                        ELSE LET init == ~tvIsInitialized /\ ChartConstructor = "function"
                                 charts == IF init THEN [n \in ChartNames |-> NewChart(n)]
                                           ELSE tvCharts
                                 points == IF init THEN [n \in ChartNames |-> <<>>]
                                           ELSE tvObs.points
                                 stats == calculateBatchStats(metrics)
                             IN /\ tvIsInitialized' = (tvIsInitialized \/ init)
                                /\ tvCharts' = [n \in ChartNames |->
                                      updateChart(charts[n], tvBatchNumber', stats[n],
                                                  tvMaxDataPoints)]
                                /\ tvObs' = [obs EXCEPT
                                      !.threw = FALSE,
                                      !.points = [n \in ChartNames |->
                                         IF charts[n].created
                                         THEN Append(points[n], <<tvBatchNumber', stats[n]>>)
                                         ELSE points[n]]]
                ELSE /\ tvObs' = [obs EXCEPT !.threw = FALSE]
                     /\ UNCHANGED <<tvCharts, tvBatchNumber, tvIsInitialized>>
  /\ UNCHANGED <<tvFrame, tvMaxDataPoints, tvShowCompletionRate, tvTrainingSession, tvWindowChart, tvGlobalChart>>

TvUpdateMetrics(metrics) ==
  /\ tvObs.updates < MaxUpdates
  /\ updateMetrics(metrics, "updateMetrics")

\* attachToSession(trainingSession): nothing is attached without a session
TvAttachToSession(trainingSession) ==
  /\ tvTrainingSession' =
       IF trainingSession = "null" THEN tvTrainingSession ELSE trainingSession
  /\ tvObs' = [tvObs EXCEPT !.lastOp = "attachToSession"]
  /\ UNCHANGED <<tvFrame, tvMaxDataPoints, tvShowCompletionRate, tvWindowChart,
                 tvGlobalChart, tvCharts, tvBatchNumber, tvIsInitialized, tvStats>>

\* trainingSession.onTrainingProgress(metrics), the callback set by
\* attachToSession: status-only deliveries are skipped
TvOnTrainingProgress(metrics, statusOnly) ==
  /\ tvTrainingSession # "null"
  /\ tvObs.updates < MaxUpdates
  /\ IF ~metrics.null /\ statusOnly
     THEN /\ tvObs' = [tvObs EXCEPT !.lastOp = "onTrainingProgress",
                                    !.updates = @ + 1,
                                    !.metrics = metrics,
                                    !.statusOnly = TRUE,
                                    !.threw = FALSE]
          /\ UNCHANGED <<tvFrame, tvMaxDataPoints, tvShowCompletionRate,
                         tvTrainingSession, tvWindowChart, tvGlobalChart, tvCharts,
                         tvBatchNumber, tvIsInitialized, tvStats>>
     ELSE updateMetrics(metrics, "onTrainingProgress")

TvReset ==
  /\ tvBatchNumber' = 0
  /\ tvStats' = NoSummary
  /\ tvCharts' = [n \in ChartNames |->
        IF tvCharts[n].created
        THEN [tvCharts[n] EXCEPT !.labels = <<>>,
                                 !.datasets = [i \in DOMAIN @ |-> <<>>]]
        ELSE tvCharts[n]]
  /\ tvObs' = [tvObs EXCEPT !.lastOp = "reset", !.threw = FALSE,
                            !.points = [n \in ChartNames |-> <<>>]]
  /\ UNCHANGED <<tvFrame, tvMaxDataPoints, tvShowCompletionRate, tvTrainingSession, tvWindowChart, tvGlobalChart, tvIsInitialized>>

TvDispose ==
  /\ tvCharts' = [n \in ChartNames |-> NoChart]
  /\ tvIsInitialized' = FALSE
  /\ tvObs' = [tvObs EXCEPT !.lastOp = "dispose", !.threw = FALSE,
                            !.points = [n \in ChartNames |-> <<>>]]
  /\ UNCHANGED <<tvFrame, tvMaxDataPoints, tvShowCompletionRate, tvTrainingSession, tvWindowChart, tvGlobalChart, tvBatchNumber,
                 tvStats>>

\* the page finishes loading the Chart.js script: window.Chart is set
TvLoadChartJs ==
  /\ tvWindowChart = "undefined"
  /\ tvWindowChart' = "function"
  /\ tvObs' = [tvObs EXCEPT !.lastOp = "loadChartJs"]
  /\ UNCHANGED <<tvFrame, tvMaxDataPoints, tvShowCompletionRate, tvTrainingSession, tvGlobalChart, tvCharts, tvBatchNumber,
                 tvIsInitialized, tvStats>>

TvNext ==
  \/ \E m \in MetricsSet : TvUpdateMetrics(m)
  \/ \E session \in {"null", "session"} : TvAttachToSession(session)
  \/ \E m \in MetricsSet, statusOnly \in BOOLEAN : TvOnTrainingProgress(m, statusOnly)
  \/ TvReset
  \/ TvDispose
  \/ TvLoadChartJs

\* the last n elements of a sequence (all of it when it is shorter)
LastN(seq, n) ==
  IF Len(seq) <= n THEN seq ELSE SubSeq(seq, Len(seq) - n + 1, Len(seq))

\* C9: after any sequence of updateMetrics calls each chart holds at most
\* maxDataPoints points, namely the most recent ones appended to it, and each
\* dataset's data array is as long as the labels array.
C9_BoundedHistory ==
  \A n \in ChartNames :
    tvCharts[n].created =>
      LET chart == tvCharts[n]
          kept == LastN(tvObs.points[n], tvMaxDataPoints)
      IN /\ Len(chart.labels) <= tvMaxDataPoints
         /\ chart.labels = [i \in 1..Len(kept) |-> kept[i][1]]
         /\ \A d \in DOMAIN chart.datasets :
              /\ Len(chart.datasets[d]) = Len(chart.labels)
              /\ chart.datasets[d] = [i \in 1..Len(kept) |-> kept[i][2][d]]

\* C9 witness: more points than maxDataPoints were appended to the reward
\* chart, which holds maxDataPoints > 0 of them.
C9_Witness ==
  /\ tvObs.lastOp = "updateMetrics"
  /\ tvCharts["reward"].created
  /\ tvMaxDataPoints > 0
  /\ Len(tvObs.points["reward"]) > tvMaxDataPoints
  /\ Len(tvCharts["reward"].labels) = tvMaxDataPoints

\* C10: when no Chart constructor is loaded (neither window.Chart nor a
\* global Chart), every updateMetrics call completes without throwing,
\* updates the summary statistics and creates no chart.
C10_NoChartJsIsHandled ==
  (tvObs.lastOp = "updateMetrics" /\ tvObs.noChart /\ ~tvObs.metrics.null)
    => /\ ~tvObs.threw
       /\ tvStats = SummaryOf(tvObs.metrics)
       /\ \A n \in ChartNames : ~tvCharts[n].created

\* the chart before a delivery, or the chart initializeCharts creates
ChartBefore(n) == IF tvCharts[n].created THEN tvCharts[n] ELSE NewChart(n)

\* a delivery of the attached session is the step taken
Delivered ==
  /\ tvObs'.lastOp = "onTrainingProgress"
  /\ tvObs'.updates = tvObs.updates + 1
  /\ ~tvObs'.metrics.null

\* C23: a delivery of the attached session with gamesCompleted > 0 and not
\* status-only increments batchNumber by one and appends one point,
\* labelled with the new batchNumber, to each chart that exists (kept
\* within maxDataPoints); a status-only delivery changes nothing; a
\* delivery with gamesCompleted = 0 changes the summary statistics only.
C23_OnePointPerDelivery ==
  [][Delivered =>
       IF tvObs'.statusOnly
       THEN UNCHANGED <<tvCharts, tvBatchNumber, tvIsInitialized, tvStats>>
       ELSE IF tvObs'.metrics.gamesCompleted = 0
       THEN /\ UNCHANGED <<tvCharts, tvBatchNumber, tvIsInitialized>>
            /\ tvStats' = SummaryOf(tvObs'.metrics)
       ELSE /\ tvBatchNumber' = tvBatchNumber + 1
            /\ \A n \in ChartNames :
                 IF tvCharts'[n].created
                 THEN /\ tvCharts'[n].labels =
                           LastN(Append(ChartBefore(n).labels, tvBatchNumber'),
                                 tvMaxDataPoints)
                      /\ \A d \in DOMAIN tvCharts'[n].datasets :
                           tvCharts'[n].datasets[d] =
                             LastN(Append(ChartBefore(n).datasets[d],
                                          calculateBatchStats(tvObs'.metrics)[n][d]),
                                   tvMaxDataPoints)
                 ELSE ~tvCharts[n].created]_vars

\* C23 witness: after a status-only delivery and one without a completed
\* game, the second charted delivery of the session has appended the point
\* labelled 2 to the charts
C23_Witness ==
  /\ tvObs.lastOp = "onTrainingProgress"
  /\ ~tvObs.statusOnly
  /\ tvObs.updates = 4
  /\ tvBatchNumber = 2
  /\ \A n \in ChartNames : tvCharts[n].created /\ tvCharts[n].labels = <<1, 2>>

(***************************************************************************)
(* ModelManager                                                            *)
(* saveModel and loadModel are async: a call runs to its first await,      *)
(* continues in a microtask when the awaited promise is already resolved   *)
(* (this.db not set), and otherwise when its IndexedDB request completes.  *)
(* Microtasks run in order before any event; requests on one object store  *)
(* complete in the order they were made.                                   *)
(***************************************************************************)
CallIds == 1..MaxCalls

\* A model given to saveModel: its id ("" when it has none) and what
\* serialize() returns, a number.
Models == {[id |-> "m1", data |-> "1"], [id |-> "m2", data |-> "NaN"],
           [id |-> "", data |-> "1"]}

NoModel == [id |-> "none", data |-> "undefined"]

\* generateModelId(): model_<Date.now()>_<random>, one per call
generateModelId(c) == IF c = 1 THEN "model_g1" ELSE IF c = 2 THEN "model_g2"
                      ELSE IF c = 3 THEN "model_g3" ELSE "model_g4"

\* model.id || this.generateModelId()
ModelIdOf(model, c) == IF model.id # "" THEN model.id ELSE generateModelId(c)

ModelIds == {"m1", "m2"} \cup {generateModelId(c) : c \in CallIds}

\* localStorage keys: the prefix and the rest of the key
StoragePrefix == "saber_rl_"
MmKey(name) == [prefix |-> StoragePrefix, name |-> name]
\* `${this.storagePrefix}current_model`
FixedModelKey == MmKey("current_model")
\* `${this.storagePrefix}model_${modelId}`
ModelKey(id) == [prefix |-> StoragePrefix, name |-> "model_", id |-> id]
\* `${this.storagePrefix}model_list`
ModelListKey == MmKey("model_list")
\* a key of another application
ForeignKey == [prefix |-> "other_", name |-> "model_", id |-> "m1"]

\* key.startsWith(this.storagePrefix) && key.includes('model_') && key !== FIXED_MODEL_KEY
IsOldModelKey(key) ==
  /\ key.prefix = StoragePrefix
  /\ key.name \in {"model_", "model_list"}
  /\ key # FixedModelKey

\* cleanupOldModels(): localStorage after the call
cleanupKeepsOldModels(ls) == RemoveItem(ls, ModelListKey)

cleanupOldModels(ls) ==
  LET kept == {k \in DOMAIN ls : ~IsOldModelKey(k)} \ {ModelListKey}
  IN [k \in kept |-> ls[k]]

\* JSON.stringify(modelData) and JSON.parse of it
MmJsonStringify(modelData) ==
  [json |-> [id |-> modelData.id, model |-> JsonStringifyNumber(modelData.model),
             savedAt |-> modelData.savedAt]]

MmJsonParse(text) ==
  [id |-> text.json.id, model |-> JsonParseToken(text.json.model),
   savedAt |-> text.json.savedAt]

\* metadata.savedAt, new Date() when saveModel builds modelData: a time later
\* than that of every record built before
SavedAt(calls) ==
  2 + Cardinality({c \in CallIds : /\ calls[c].kind = "save"
                                    /\ calls[c].pc \in {"afterPut", "done", "failed"}})

\* a model record an earlier version of the program stored under model_<id>
LegacyModel(id) ==
  MmJsonStringify([id |-> id, model |-> "1", savedAt |-> IF id = "m1" THEN 0 ELSE 1])

\* JSON.stringify(modelList) and JSON.parse of it: an array of strings
MmJsonStringifyList(modelList) == [json |-> [list |-> modelList]]
MmJsonParseList(text) == text.json.list

\* models.sort((a, b) => savedAt(b) - savedAt(a)): most recent first, the
\* order of equal ones kept
RECURSIVE SortBySavedAt(_)
SortBySavedAt(models) ==
  IF models = <<>> THEN <<>>
  ELSE LET rest == SortBySavedAt(Tail(models))
           m == Head(models)
           before == SelectSeq(rest, LAMBDA x : x.savedAt > m.savedAt)
           after == SelectSeq(rest, LAMBDA x : x.savedAt <= m.savedAt)
       IN before \o <<m>> \o after

\* listModels(): the entries of the model list that have a record, sorted
\* (the size of an entry is left out)
listModels(ls) ==
  LET list == IF ModelListKey \in DOMAIN ls THEN MmJsonParseList(ls[ModelListKey])
              ELSE <<>>
      stored == SelectSeq(list, LAMBDA id : ModelKey(id) \in DOMAIN ls)
      models == [n \in 1..Len(stored) |->
                   [id |-> stored[n],
                    savedAt |-> MmJsonParse(ls[ModelKey(stored[n])]).savedAt]]
  IN SortBySavedAt(models)

\* deserializeModel(modelData): the data as it is
deserializeModel(modelData) == modelData

NoResult == [status |-> "none", value |-> "undefined"]

NoCall == [kind |-> "none", pc |-> "idle", model |-> NoModel, arg |-> "none",
           result |-> NoResult, quiet |-> FALSE, last |-> NoModel, known |-> FALSE,
           knownData |-> "undefined", lastId |-> "none", dbOpen |-> FALSE]

MmObsInit ==
  [ lastSaved |-> NoModel,  \* the model of the saveModel call that completed last
    lastId    |-> "none",   \* the id that call returned
    saved     |-> <<>>,     \* id returned by a completed saveModel -> data saved
    failed    |-> FALSE,    \* a saveModel call has thrown
    sessions  |-> <<>>,     \* id returned by a completed saveTrainingSession -> data
    errors    |-> 0 ]       \* IndexedDB requests that ended with an error

\* a saveModel call is between its start and its return or throw
SaveInProgress(calls) ==
  \E c \in CallIds : calls[c].kind = "save" /\ calls[c].pc \in {"afterDelete", "afterPut"}

\* new ModelManager(config), with localStorage as an earlier version of the
\* program, or nobody, left it
MmConstructed(legacy) ==
  /\ mmLocalStorage =
       IF legacy
       THEN (ModelKey("m1") :> LegacyModel("m1"))
            @@ (ModelKey("m2") :> LegacyModel("m2"))
            @@ (ModelListKey :> MmJsonStringifyList(<<"m1", "m2">>))
            @@ (ForeignKey :> LegacyModel("m1"))
       ELSE <<>>
  /\ mmModelsStore = <<>>
  /\ mmSessionsStore = <<>>
  /\ mmDb = FALSE
  /\ mmMicrotasks = <<>>
  /\ mmRequests = <<>>
  /\ mmCalls = [c \in CallIds |-> NoCall]
  /\ mmObs = MmObsInit

MmInit == \E legacy \in BOOLEAN : MmConstructed(legacy)

\* the manager when another class is run
MmIdle == MmConstructed(FALSE)

\* the next call to be made
NextCall(c) ==
  /\ mmCalls[c].kind = "none"
  /\ \A b \in CallIds : b < c => mmCalls[b].kind # "none"

\* saveModel from the cleanup (line 141) to the await of saveToIndexedDB:
\* `calls`, `requests`, `microtasks` are the state the call continues from
SaveBody(c, calls, requests, microtasks, obs) ==
  LET model == calls[c].model
      modelData == [id |-> ModelIdOf(model, c), model |-> model.data,
                    savedAt |-> SavedAt(calls)]
  IN /\ mmLocalStorage' = SetItem(cleanupOldModels(mmLocalStorage), FixedModelKey,
                                  MmJsonStringify(modelData))
     /\ IF mmDb
        THEN /\ mmRequests' = Append(requests,
                   [call |-> c, op |-> "put", store |-> "models", key |-> "current_model",
                    data |-> model.data])
             /\ mmMicrotasks' = microtasks
        ELSE /\ mmRequests' = requests
             /\ mmMicrotasks' = Append(microtasks, c)
     /\ mmCalls' = [calls EXCEPT ![c].pc = "afterPut"]
     /\ mmObs' = obs

\* saveModel returns modelId
SaveReturns(c, requests, microtasks) ==
  /\ mmCalls' = [mmCalls EXCEPT
       ![c].pc = "done",
       ![c].result = [status |-> "ok", value |-> ModelIdOf(mmCalls[c].model, c)]]
  /\ mmObs' = [mmObs EXCEPT !.lastSaved = mmCalls[c].model,
                            !.lastId = ModelIdOf(mmCalls[c].model, c),
                            !.saved = SetItem(@, ModelIdOf(mmCalls[c].model, c),
                                              mmCalls[c].model.data)]
  /\ mmRequests' = requests
  /\ mmMicrotasks' = microtasks
  /\ UNCHANGED <<mmLocalStorage>>

\* loadModel from the result of loadFromIndexedDB to its return or throw
LoadFinishes(c, modelData, found, requests, microtasks) ==
  /\ mmCalls' = [mmCalls EXCEPT
       ![c].pc = IF found THEN "done" ELSE "failed",
       ![c].result = IF found
                     THEN [status |-> "ok", value |-> deserializeModel(modelData.model)]
                     ELSE [status |-> "Model not found", value |-> "undefined"]]
  /\ mmRequests' = requests
  /\ mmMicrotasks' = microtasks
  /\ UNCHANGED <<mmLocalStorage, mmObs>>

\* saveModel(model), to its first await
MmSaveModel(c, model) ==
  /\ NextCall(c)
  /\ LET calls == [mmCalls EXCEPT ![c] = [NoCall EXCEPT !.kind = "save", !.model = model]]
     IN IF FixedModelKey \in DOMAIN mmLocalStorage
        THEN \* await this.deleteFromIndexedDB('models', oldData.id)
             /\ mmCalls' = [calls EXCEPT ![c].pc = "afterDelete"]
             /\ IF mmDb
                THEN /\ mmRequests' = Append(mmRequests,
                           [call |-> c, op |-> "delete", store |-> "models",
                            key |-> MmJsonParse(mmLocalStorage[FixedModelKey]).id,
                            data |-> "undefined"])
                     /\ UNCHANGED mmMicrotasks
                ELSE /\ mmMicrotasks' = Append(mmMicrotasks, c)
                     /\ UNCHANGED mmRequests
             /\ UNCHANGED <<mmLocalStorage, mmObs>>
        ELSE SaveBody(c, calls, mmRequests, mmMicrotasks, mmObs)
  /\ UNCHANGED <<mmFrame, mmModelsStore, mmSessionsStore, mmDb>>

\* loadModel(modelId), to its first await or its return; arg "null" is no id
MmLoadModel(c, arg) ==
  /\ NextCall(c)
  /\ LET storageKey == IF arg # "null" THEN ModelKey(arg) ELSE FixedModelKey
         dbId == IF arg # "null" THEN arg ELSE "current_model"
         calls == [mmCalls EXCEPT ![c] =
                     [NoCall EXCEPT !.kind = "load", !.arg = arg,
                                    !.quiet = ~SaveInProgress(mmCalls) /\ ~mmObs.failed,
                                    !.last = mmObs.lastSaved,
                                    !.known = arg \in DOMAIN mmObs.saved,
                                    !.knownData = IF arg \in DOMAIN mmObs.saved
                                                  THEN mmObs.saved[arg]
                                                  ELSE "undefined"]]
     IN IF storageKey \in DOMAIN mmLocalStorage
        THEN /\ mmCalls' = [calls EXCEPT
                  ![c].pc = "done",
                  ![c].result = [status |-> "ok",
                     value |-> deserializeModel(MmJsonParse(mmLocalStorage[storageKey]).model)]]
             /\ UNCHANGED <<mmRequests, mmMicrotasks>>
        ELSE \* await this.loadFromIndexedDB('models', dbId)
             /\ mmCalls' = [calls EXCEPT ![c].pc = "afterGet"]
             /\ IF mmDb
                THEN /\ mmRequests' = Append(mmRequests,
                           [call |-> c, op |-> "get", store |-> "models", key |-> dbId,
                            data |-> "undefined"])
                     /\ UNCHANGED mmMicrotasks
                ELSE /\ mmMicrotasks' = Append(mmMicrotasks, c)
                     /\ UNCHANGED mmRequests
  /\ UNCHANGED <<mmFrame, mmLocalStorage, mmModelsStore, mmSessionsStore, mmDb, mmObs>>

\* the object stores initializeIndexedDB creates
ObjectStoreNames == {"models", "experiences", "metrics"}

\* A session given to saveTrainingSession: its id ("" when it has none) and
\* the rest of its data, a number.
Sessions == {[id |-> "s1", data |-> "NaN"], [id |-> "", data |-> "1"]}

\* generateSessionId(): session_<Date.now()>_<random>, one per call
generateSessionId(c) == <<"session_", c>>

\* sessionData.id || this.generateSessionId()
SessionIdOf(session, c) == IF session.id # "" THEN <<session.id>> ELSE generateSessionId(c)

SessionIds == {<<"s1">>} \cup {generateSessionId(c) : c \in CallIds}

\* saveTrainingSession returns sessionId
SessionSaveReturns(c, requests, microtasks) ==
  /\ mmCalls' = [mmCalls EXCEPT
       ![c].pc = "done",
       ![c].result = [status |-> "ok", value |-> SessionIdOf(mmCalls[c].model, c)]]
  /\ mmObs' = [mmObs EXCEPT !.sessions = SetItem(@, SessionIdOf(mmCalls[c].model, c),
                                                 mmCalls[c].model.data)]
  /\ mmRequests' = requests
  /\ mmMicrotasks' = microtasks
  /\ UNCHANGED <<mmLocalStorage>>

\* loadTrainingSession from the result of loadFromIndexedDB to its return or throw
SessionLoadFinishes(c, sessionData, found, requests, microtasks) ==
  /\ mmCalls' = [mmCalls EXCEPT
       ![c].pc = IF found THEN "done" ELSE "failed",
       ![c].result = IF found
                     THEN [status |-> "ok", value |-> sessionData]
                     ELSE [status |-> "Session not found", value |-> "undefined"]]
  /\ mmRequests' = requests
  /\ mmMicrotasks' = microtasks
  /\ UNCHANGED <<mmLocalStorage, mmObs>>

\* the awaited promise was rejected because this.db.transaction threw:
\* the call logs the error and throws it again
SessionRejects(c, requests, microtasks) ==
  /\ mmCalls' = [mmCalls EXCEPT
       ![c].pc = "failed",
       ![c].result = [status |-> "NotFoundError", value |-> "undefined"]]
  /\ mmRequests' = requests
  /\ mmMicrotasks' = microtasks
  /\ UNCHANGED <<mmLocalStorage, mmObs>>

\* saveToIndexedDB / loadFromIndexedDB on 'sessions', called by c, which then
\* waits at position pc: nothing is done without this.db, transaction()
\* throws when the database has no such object store
SessionRequest(c, calls, pc, op, key, data) ==
  IF ~mmDb
  THEN /\ mmCalls' = [calls EXCEPT ![c].pc = pc]
       /\ mmMicrotasks' = Append(mmMicrotasks, c)
       /\ UNCHANGED mmRequests
  ELSE IF "sessions" \notin ObjectStoreNames
  THEN /\ mmCalls' = [calls EXCEPT ![c].pc = "rejected"]
       /\ mmMicrotasks' = Append(mmMicrotasks, c)
       /\ UNCHANGED mmRequests
  ELSE /\ mmCalls' = [calls EXCEPT ![c].pc = pc]
       /\ mmRequests' = Append(mmRequests, [call |-> c, op |-> op, store |-> "sessions",
                                            key |-> key, data |-> data])
       /\ UNCHANGED mmMicrotasks

\* saveTrainingSession(sessionData), to its await
MmSaveTrainingSession(c, session) ==
  /\ NextCall(c)
  /\ SessionRequest(c, [mmCalls EXCEPT ![c] =
                          [NoCall EXCEPT !.kind = "saveSession", !.model = session,
                                         !.dbOpen = mmDb]],
                    "afterSessionPut", "put", SessionIdOf(session, c), session.data)
  /\ UNCHANGED <<mmFrame, mmLocalStorage, mmModelsStore, mmSessionsStore, mmDb, mmObs>>

\* loadTrainingSession(sessionId), to its await
MmLoadTrainingSession(c, sessionId) ==
  /\ NextCall(c)
  /\ SessionRequest(c, [mmCalls EXCEPT ![c] =
                          [NoCall EXCEPT !.kind = "loadSession", !.arg = sessionId,
                                         !.dbOpen = mmDb,
                                         !.known = sessionId \in DOMAIN mmObs.sessions,
                                         !.knownData =
                                            IF sessionId \in DOMAIN mmObs.sessions
                                            THEN mmObs.sessions[sessionId]
                                            ELSE "undefined"]],
                    "afterSessionGet", "get", sessionId, "undefined")
  /\ UNCHANGED <<mmFrame, mmLocalStorage, mmModelsStore, mmSessionsStore, mmDb, mmObs>>

\* listModels(): it has no await and returns at once
MmListModels(c) ==
  /\ NextCall(c)
  /\ mmCalls' = [mmCalls EXCEPT ![c] =
       [NoCall EXCEPT !.kind = "list", !.pc = "done",
                      !.quiet = ~SaveInProgress(mmCalls) /\ ~mmObs.failed,
                      !.last = mmObs.lastSaved,
                      !.lastId = mmObs.lastId,
                      !.result = [status |-> "ok", value |-> listModels(mmLocalStorage)]]]
  /\ UNCHANGED <<mmFrame, mmLocalStorage, mmModelsStore, mmSessionsStore, mmDb, mmMicrotasks,
                 mmRequests, mmObs>>

\* the first waiting call continues: its await was on a promise already
\* resolved, because this.db was not set
MmMicrotask ==
  /\ mmMicrotasks # <<>>
  /\ LET c == Head(mmMicrotasks)
         rest == Tail(mmMicrotasks)
     IN CASE mmCalls[c].pc = "afterDelete" -> SaveBody(c, mmCalls, mmRequests, rest, mmObs)
          [] mmCalls[c].pc = "afterPut" -> SaveReturns(c, mmRequests, rest)
          [] mmCalls[c].pc = "afterGet" ->
               LoadFinishes(c, NoModel, FALSE, mmRequests, rest)
          [] mmCalls[c].pc = "afterSessionPut" -> SessionSaveReturns(c, mmRequests, rest)
          [] mmCalls[c].pc = "afterSessionGet" ->
               SessionLoadFinishes(c, "undefined", FALSE, mmRequests, rest)
          [] mmCalls[c].pc = "rejected" -> SessionRejects(c, mmRequests, rest)
  /\ UNCHANGED <<mmFrame, mmModelsStore, mmSessionsStore, mmDb>>

\* request.onsuccess of the oldest request
MmRequestSucceeds ==
  /\ mmMicrotasks = <<>>
  /\ mmRequests # <<>>
  /\ LET r == Head(mmRequests)
         rest == Tail(mmRequests)
     IN CASE r.store = "models" /\ r.op = "delete" ->
               /\ mmModelsStore' = RemoveItem(mmModelsStore, r.key)
               /\ SaveBody(r.call, mmCalls, rest, mmMicrotasks, mmObs)
               /\ UNCHANGED mmSessionsStore
          [] r.store = "models" /\ r.op = "put" ->
               /\ mmModelsStore' = SetItem(mmModelsStore, r.key,
                                           [id |-> r.key, model |-> r.data])
               /\ SaveReturns(r.call, rest, mmMicrotasks)
               /\ UNCHANGED mmSessionsStore
          [] r.store = "models" /\ r.op = "get" ->
               /\ UNCHANGED <<mmModelsStore, mmSessionsStore>>
               /\ IF r.key \in DOMAIN mmModelsStore
                  THEN LoadFinishes(r.call, mmModelsStore[r.key], TRUE, rest, mmMicrotasks)
                  ELSE LoadFinishes(r.call, NoModel, FALSE, rest, mmMicrotasks)
          [] r.store = "sessions" /\ r.op = "put" ->
               /\ mmSessionsStore' = SetItem(mmSessionsStore, r.key, r.data)
               /\ SessionSaveReturns(r.call, rest, mmMicrotasks)
               /\ UNCHANGED mmModelsStore
          [] r.store = "sessions" /\ r.op = "get" ->
               /\ UNCHANGED <<mmModelsStore, mmSessionsStore>>
               /\ IF r.key \in DOMAIN mmSessionsStore
                  THEN SessionLoadFinishes(r.call, mmSessionsStore[r.key], TRUE,
                                           rest, mmMicrotasks)
                  ELSE SessionLoadFinishes(r.call, "undefined", FALSE, rest, mmMicrotasks)
  /\ UNCHANGED <<mmFrame, mmDb>>

\* request.onerror of the oldest request: the awaited promise rejects
MmRequestFails ==
  /\ mmMicrotasks = <<>>
  /\ mmRequests # <<>>
  /\ mmObs.errors < MaxIdbErrors
  /\ LET r == Head(mmRequests)
         rest == Tail(mmRequests)
         c == r.call
     IN IF r.op = "delete"
        THEN \* caught and ignored by the inner try of saveModel
             SaveBody(c, mmCalls, rest, mmMicrotasks, [mmObs EXCEPT !.errors = @ + 1])
        ELSE /\ mmCalls' = [mmCalls EXCEPT
                  ![c].pc = "failed",
                  ![c].result = [status |-> "request error", value |-> "undefined"]]
             /\ mmRequests' = rest
             /\ mmObs' = [mmObs EXCEPT !.errors = @ + 1,
                                       !.failed = @ \/ r.op = "put"]
             /\ UNCHANGED <<mmLocalStorage, mmMicrotasks>>
  /\ UNCHANGED <<mmFrame, mmModelsStore, mmSessionsStore, mmDb>>

\* request.onsuccess of indexedDB.open: this.db = request.result
MmDbOpens ==
  /\ ~mmDb
  /\ mmMicrotasks = <<>>
  /\ mmDb' = TRUE
  /\ UNCHANGED <<mmFrame, mmLocalStorage, mmModelsStore, mmSessionsStore, mmMicrotasks, mmRequests,
                 mmCalls, mmObs>>

MmNext ==
  \/ \E c \in CallIds, m \in Models : MmSaveModel(c, m)
  \/ \E c \in CallIds, a \in {"null"} \cup ModelIds : MmLoadModel(c, a)
  \/ \E c \in CallIds : MmListModels(c)
  \/ MmMicrotask
  \/ MmRequestSucceeds
  \/ MmRequestFails
  \/ MmDbOpens

\* saveTrainingSession and loadTrainingSession on one manager
MsNext ==
  \/ \E c \in CallIds, d \in Sessions : MmSaveTrainingSession(c, d)
  \/ \E c \in CallIds, i \in SessionIds : MmLoadTrainingSession(c, i)
  \/ MmMicrotask
  \/ MmDbOpens

\* JSON.parse(JSON.stringify(x)) of a number
JsonRoundTrip(v) == JsonParseToken(JsonStringifyNumber(v))

\* every saveModel call made so far has returned, and one was made
AllSavesCompleted ==
  /\ ~SaveInProgress(mmCalls)
  /\ ~mmObs.failed
  /\ mmObs.lastSaved # NoModel

\* the model records of this manager in localStorage
ModelRecordKeys ==
  {k \in DOMAIN mmLocalStorage :
     k.prefix = StoragePrefix /\ k.name \in {"current_model", "model_"}}

\* what loadModel() returns when localStorage holds the current model
LoadCurrentModel ==
  IF FixedModelKey \in DOMAIN mmLocalStorage
  THEN deserializeModel(MmJsonParse(mmLocalStorage[FixedModelKey]).model)
  ELSE "undefined"

\* the loadModel() calls without an id that have returned or thrown and were
\* made after completed saveModel calls only
LoadsOfCurrent ==
  {c \in CallIds : /\ mmCalls[c].kind = "load" /\ mmCalls[c].arg = "null"
                   /\ mmCalls[c].pc \in {"done", "failed"}
                   /\ mmCalls[c].quiet /\ mmCalls[c].last # NoModel}

\* C2 (as stated): after any sequence of completed saveModel calls,
\* localStorage holds exactly one model record of this manager, under
\* <storagePrefix>current_model, and loadModel() returns the serialized data
\* of the most recently saved model.
C2_SingleSlotRegister ==
  /\ AllSavesCompleted =>
       /\ ModelRecordKeys = {FixedModelKey}
       /\ LoadCurrentModel = mmObs.lastSaved.data
  /\ \A c \in LoadsOfCurrent :
       mmCalls[c].result = [status |-> "ok", value |-> mmCalls[c].last.data]

\* C2 (amended): ... and loadModel() returns the JSON round trip of the
\* serialized data of the most recently saved model, which is that data when
\* it holds only what JSON can represent (NaN comes back as null).
C2_SingleSlotRegisterJson ==
  /\ AllSavesCompleted =>
       /\ ModelRecordKeys = {FixedModelKey}
       /\ LoadCurrentModel = JsonRoundTrip(mmObs.lastSaved.data)
       /\ mmObs.lastSaved.data # "NaN" => LoadCurrentModel = mmObs.lastSaved.data
  /\ \A c \in LoadsOfCurrent :
       /\ mmCalls[c].result.status = "ok"
       /\ mmCalls[c].result.value = JsonRoundTrip(mmCalls[c].last.data)
       /\ mmCalls[c].last.data # "NaN" =>
            mmCalls[c].result.value = mmCalls[c].last.data

\* C2 witness: two saveModel calls of different models have completed, over
\* old model records, and a later loadModel() returned the second model.
C2_Witness ==
  /\ AllSavesCompleted
  /\ Cardinality(DOMAIN mmObs.saved) >= 2
  /\ ForeignKey \in DOMAIN mmLocalStorage
  /\ \E c \in LoadsOfCurrent :
       /\ mmCalls[c].last = mmObs.lastSaved
       /\ mmCalls[c].result = [status |-> "ok", value |-> mmObs.lastSaved.data]

\* C3: whenever no saveModel call is in progress, the model stored in
\* localStorage under <storagePrefix>current_model and the record
\* 'current_model' of the IndexedDB 'models' store are the same model.
C3_AtomicReplace ==
  ~SaveInProgress(mmCalls) =>
    /\ FixedModelKey \in DOMAIN mmLocalStorage <=> "current_model" \in DOMAIN mmModelsStore
    /\ FixedModelKey \in DOMAIN mmLocalStorage =>
         mmLocalStorage[FixedModelKey].json.model
           = JsonStringifyNumber(mmModelsStore["current_model"].model)

\* C4: loadModel(modelId), with the id a completed saveModel returned,
\* returns the model that was saved; 'Model not found' is thrown only for
\* ids that were never saved.
C4_ReturnedIdLoadsModel ==
  \A c \in CallIds :
    (mmCalls[c].kind = "load" /\ mmCalls[c].arg # "null"
       /\ mmCalls[c].pc \in {"done", "failed"} /\ mmCalls[c].known)
      => mmCalls[c].result = [status |-> "ok",
                              value |-> JsonRoundTrip(mmCalls[c].knownData)]

(***************************************************************************)
(* BehaviorCloningTrainer                                                  *)
(* train() is async: a call runs to its next await and continues in a      *)
(* microtask once the awaited promise is resolved.  The promise of         *)
(* trainBatch is resolved when it is awaited; the promise of               *)
(* yieldToEventLoop is resolved by the message handler of port1 (hidden    *)
(* tab) or by a timer (visible tab).  Microtasks run in order before any   *)
(* message, timer or other event.                                          *)
(***************************************************************************)
TrainIds == 1..MaxTrains

\* validationSplit, in percent
ValidationSplits == {0, 20, 50}

\* A step of a dataset, by the lengths of its observation and action against
\* the observationSize and actionSize of the policy agent.
StepKinds == {"ok", "badObs", "badAct"}

\* the steps of a dataset, in order: at most one of them is not "ok"
DatasetSteps ==
  {steps \in UNION {[1..n -> StepKinds] : n \in 1..MaxSamples} :
     Cardinality({n \in 1..Len(steps) : steps[n] # "ok"}) <= 1}

\* the steps of all episodes, in order
RECURSIVE Flatten(_)
Flatten(episodes) ==
  IF episodes = <<>> THEN <<>> ELSE Head(episodes) \o Flatten(Tail(episodes))

\* A dataset given to train(): metadata.gameCoreInfo (absent, or its sizes
\* against those of the policy agent) and two episodes, one with all the
\* steps and one with none.
TrainDatasets ==
  UNION {{[info |-> i, episodes |-> <<SubSeq(steps, 1, k), SubSeq(steps, k + 1, Len(steps))>>] :
            i \in {"none", "match", "mismatch"}, k \in {0, Len(steps)}} :
         steps \in DatasetSteps}

\* Datasets of well-formed steps only, none or MaxLongSamples of them, in
\* one episode and without gameCoreInfo
LongDatasets ==
  {[info |-> "none", episodes |-> <<[k \in 1..n |-> "ok"]>>] : n \in {0, MaxLongSamples}}

\* validateDataset: does not throw
validateDataset(dataset) ==
  /\ dataset.info # "mismatch"
  /\ (Len(dataset.episodes) > 0 /\ Len(dataset.episodes[1]) > 0)
       => dataset.episodes[1][1] = "ok"

\* tf.tensor2d(rows, [rows.length, size]) does not throw; a step of kind bad
\* has a row of another length than size.  The shape is inferred
\* from the first row; the other rows are looked at only when the library
\* checks the consistency of nested arrays (checked).
tensor2d(steps, bad, checked) ==
  /\ steps # <<>> => steps[1] # bad
  /\ checked => \A n \in 1..Len(steps) : steps[n] # bad

\* the dataset or one of its steps disagrees with the policy agent
ShapeMismatch(dataset) ==
  \/ dataset.info = "mismatch"
  \/ \E n \in 1..Len(Flatten(dataset.episodes)) : Flatten(dataset.episodes)[n] # "ok"

\* prepareTrainingData: the number of validation samples
ValSize(samples, config) ==
  IF config.validationSplit > 0
  THEN (samples * config.validationSplit) \div 100
  ELSE 0

\* prepareTrainingData: the number of training samples
TrainSize(samples, config) ==
  IF config.validationSplit > 0
  THEN samples - ((samples * config.validationSplit) \div 100)
  ELSE samples

\* Math.ceil(totalSamples / batchSize)
NumBatches(totalSamples, config) ==
  (totalSamples + config.batchSize - 1) \div config.batchSize

NoTrain == [pc |-> "idle", epoch |-> 0, i |-> 0, numBatches |-> 0,
            tensors |-> 0,      \* tensors the call created and has not disposed
            batchTensors |-> 0, \* those of them created for a mini-batch
            steps |-> 0,        \* optimizer steps (trainBatch calls) made
            progress |-> 0,     \* onProgress calls made
            mismatch |-> FALSE, \* the dataset given disagrees with the agent
            sinceYield |-> 0,   \* trainBatch calls since the last yieldToEventLoop
            samples |-> 0,      \* steps of the dataset
            emptyInput |-> FALSE, \* the training split has no sample
            reported |-> [trainLoss |-> "0", valLoss |-> "0"]]
                                \* the losses last passed to onProgress

\* totalLoss / numBatches: 0 / 0 is NaN
EpochLoss(numBatches) == IF numBatches = 0 THEN "NaN" ELSE "finite"

\* valLoss of train(): computeValidationLoss when there is validation data
ValLoss(samples, config) ==
  IF ValSize(samples, config) > 0 THEN "finite" ELSE "0"

\* trainEpoch yields after the first batch only
YieldsAfterFirst(i) == i = 0

\* trainEpoch yields after batch i
YieldsAfter(i) == i % YieldEvery = 0

\* the positions where a call waits for yieldToEventLoop to resolve
Yielding(t) == bcCalls[t].pc \in {"batchYield", "epochYield"}

\* new BehaviorCloningTrainer(config), in a tab hidden or not
BcConstructed(config, hidden) ==
  /\ bcConfig = config
  /\ bcHidden = hidden
  /\ bcYieldChannelResolve = 0
  /\ bcMessages = 0
  /\ bcTimers = <<>>
  /\ bcMicrotasks = <<>>
  /\ bcCalls = [t \in TrainIds |-> NoTrain]
  /\ bcStats = [trainLoss |-> "0", valLoss |-> "0", epoch |-> 0, step |-> 0]

BcInit ==
  \E e \in 1..MaxEpochs, b \in 1..MaxBatchSize, v \in ValidationSplits, h \in BOOLEAN :
    BcConstructed([epochs |-> e, batchSize |-> b, validationSplit |-> v], h)

\* the trainer when another class is run
BcIdle == BcConstructed([epochs |-> 1, batchSize |-> 1, validationSplit |-> 0], FALSE)

\* yieldToEventLoop, called by t, which then waits at position pc
yieldToEventLoop(t, pc, calls, microtasks) ==
  /\ IF bcHidden
     THEN /\ bcYieldChannelResolve' = t
          /\ bcMessages' = bcMessages + 1
          /\ UNCHANGED bcTimers
     ELSE /\ bcTimers' = Append(bcTimers, t)
          /\ UNCHANGED <<bcYieldChannelResolve, bcMessages>>
  /\ bcCalls' = [calls EXCEPT ![t].pc = pc, ![t].sinceYield = 0]
  /\ bcMicrotasks' = microtasks

\* trainEpoch at the head of its loop: the next batch is trained and its
\* promise awaited, or the epoch returns to train()
trainEpoch(t, calls, microtasks) ==
  /\ bcCalls' = IF calls[t].i < calls[t].numBatches
                THEN \* batchIndicesTensor, batchObs, batchAct; trainBatch
                     [calls EXCEPT ![t].pc = "afterBatch",
                                   ![t].tensors = @ + 3,
                                   ![t].batchTensors = @ + 3,
                                   ![t].steps = @ + 1,
                                   ![t].sinceYield = @ + 1]
                ELSE [calls EXCEPT ![t].pc = "afterEpoch"]
  /\ bcMicrotasks' = Append(microtasks, t)
  /\ UNCHANGED <<bcYieldChannelResolve, bcMessages, bcTimers>>

\* the next train() call to be made
NextTrain(t) ==
  /\ bcCalls[t].pc = "idle"
  /\ \A u \in TrainIds : u < t => bcCalls[u].pc # "idle"

\* a yield of t resolves: the call continues in a microtask
Resolve(t) ==
  /\ bcCalls' = [bcCalls EXCEPT ![t].pc = IF @ = "batchYield" THEN "batchResume"
                                          ELSE "epochResume"]
  /\ bcMicrotasks' = Append(bcMicrotasks, t)

\* train(dataset, policyAgent), to its first await or its throw
BcTrain(t, dataset, checked) ==
  /\ NextTrain(t)
  /\ LET steps == Flatten(dataset.episodes)
         calls == [bcCalls EXCEPT ![t].mismatch = ShapeMismatch(dataset),
                                  ![t].samples = Len(steps),
                                  ![t].emptyInput =
                                     TrainSize(Len(steps), bcConfig) = 0]
         Throws(tensors) ==
           /\ bcCalls' = [calls EXCEPT ![t].pc = "failed", ![t].tensors = tensors]
           /\ UNCHANGED <<bcYieldChannelResolve, bcMessages, bcTimers, bcMicrotasks>>
     IN IF ~validateDataset(dataset) THEN Throws(0)
        ELSE IF ~tensor2d(steps, "badObs", checked) THEN Throws(0)
        ELSE IF ~tensor2d(steps, "badAct", checked)
        THEN Throws(1)  \* obsTensor
        ELSE trainEpoch(t, [calls EXCEPT
                              ![t].numBatches =
                                 NumBatches(TrainSize(Len(steps), bcConfig), bcConfig),
                              \* obsTensor, actTensor, or the four slices of them
                              ![t].tensors =
                                 IF bcConfig.validationSplit > 0 THEN 4 ELSE 2],
                        bcMicrotasks)
  /\ UNCHANGED <<bcFrame, bcConfig, bcHidden, bcStats>>

\* the first waiting call continues after its await
BcMicrotask ==
  /\ bcMicrotasks # <<>>
  /\ LET t == Head(bcMicrotasks)
         rest == Tail(bcMicrotasks)
         call == bcCalls[t]
         \* batchObs, batchAct and batchIndicesTensor disposed
         disposed == [bcCalls EXCEPT ![t].tensors = @ - 3, ![t].batchTensors = @ - 3]
     IN CASE call.pc = "afterBatch" ->
               /\ IF YieldsAfter(call.i)
                  THEN yieldToEventLoop(t, "batchYield", disposed, rest)
                  ELSE trainEpoch(t, [disposed EXCEPT ![t].i = @ + 1], rest)
               /\ UNCHANGED bcStats
          [] call.pc = "batchResume" ->
               /\ trainEpoch(t, [bcCalls EXCEPT ![t].i = @ + 1], rest)
               /\ UNCHANGED bcStats
          [] call.pc = "afterEpoch" ->
               /\ bcStats' = [trainLoss |-> EpochLoss(call.numBatches),
                              valLoss |-> ValLoss(call.samples, bcConfig),
                              epoch |-> call.epoch + 1,
                              step |-> (call.epoch + 1) * bcConfig.batchSize]
               /\ yieldToEventLoop(t, "epochYield",
                                   [bcCalls EXCEPT
                                      ![t].progress = @ + 1,
                                      ![t].reported =
                                         [trainLoss |-> EpochLoss(call.numBatches),
                                          valLoss |-> ValLoss(call.samples, bcConfig)]],
                                   rest)
          [] call.pc = "epochResume" ->
               /\ IF call.epoch + 1 < bcConfig.epochs
                  THEN trainEpoch(t, [bcCalls EXCEPT ![t].epoch = @ + 1, ![t].i = 0], rest)
                  ELSE \* trainData and valData disposed
                       /\ bcCalls' = [bcCalls EXCEPT ![t].epoch = @ + 1,
                                                     ![t].pc = "done",
                                                     ![t].tensors = 0]
                       /\ bcMicrotasks' = rest
                       /\ UNCHANGED <<bcYieldChannelResolve, bcMessages, bcTimers>>
               /\ UNCHANGED bcStats
  /\ UNCHANGED <<bcFrame, bcConfig, bcHidden>>

\* the first waiting call continues after the await of a trainBatch that
\* threw: trainEpoch and train pass the error on
BcBatchThrows ==
  /\ bcMicrotasks # <<>>
  /\ bcCalls[Head(bcMicrotasks)].pc = "afterBatch"
  /\ bcCalls' = [bcCalls EXCEPT ![Head(bcMicrotasks)].pc = "failed"]
  /\ bcMicrotasks' = Tail(bcMicrotasks)
  /\ UNCHANGED <<bcFrame, bcConfig, bcHidden, bcYieldChannelResolve, bcMessages,
                 bcTimers, bcStats>>

\* port1.onmessage
BcMessage ==
  /\ bcMicrotasks = <<>>
  /\ bcMessages > 0
  /\ bcMessages' = bcMessages - 1
  /\ IF bcYieldChannelResolve # 0
     THEN /\ Resolve(bcYieldChannelResolve)
          /\ bcYieldChannelResolve' = 0
     ELSE UNCHANGED <<bcYieldChannelResolve, bcCalls, bcMicrotasks>>
  /\ UNCHANGED <<bcFrame, bcConfig, bcHidden, bcTimers, bcStats>>

\* the oldest setTimeout(resolve, 0) fires
BcTimer ==
  /\ bcMicrotasks = <<>>
  /\ bcTimers # <<>>
  /\ Resolve(Head(bcTimers))
  /\ bcTimers' = Tail(bcTimers)
  /\ UNCHANGED <<bcFrame, bcConfig, bcHidden, bcYieldChannelResolve, bcMessages, bcStats>>

\* the tab is hidden or shown
BcVisibilityChange ==
  /\ bcMicrotasks = <<>>
  /\ bcHidden' = ~bcHidden
  /\ UNCHANGED <<bcFrame, bcConfig, bcYieldChannelResolve, bcMessages, bcTimers,
                 bcMicrotasks, bcCalls, bcStats>>

BcNext ==
  \/ \E t \in TrainIds, d \in TrainDatasets, checked \in BOOLEAN : BcTrain(t, d, checked)
  \/ BcMicrotask
  \/ BcMessage
  \/ BcTimer
  \/ BcVisibilityChange

\* the trainer when a mini-batch step may throw
BcThrowsNext == BcNext \/ BcBatchThrows

\* a trainer for long and for empty datasets: one step per mini-batch, with
\* no validation split or with every step in it
BcLongInit ==
  \E e \in {1, 2}, v \in {0, 100}, h \in BOOLEAN :
    BcConstructed([epochs |-> e, batchSize |-> 1, validationSplit |-> v], h)

\* the trainer on long and on empty datasets
BcLongNext ==
  \/ \E t \in TrainIds, d \in LongDatasets : BcTrain(t, d, TRUE)
  \/ BcMicrotask
  \/ BcMessage
  \/ BcTimer
  \/ BcVisibilityChange

\* C1: every yield to the event loop eventually resumes, and every train()
\* call that started training eventually finishes all its epochs and
\* resolves, whatever the visibility of the tab and however many train()
\* calls run on the trainer at once.
C1_EveryYieldResumes ==
  \A t \in TrainIds :
    /\ Yielding(t) ~> ~Yielding(t)
    /\ (bcCalls[t].pc \notin {"idle", "failed"}) ~> (bcCalls[t].pc = "done")

\* the listModels() calls made after a saveModel call had completed
ListsAfterSave ==
  {c \in CallIds : mmCalls[c].kind = "list" /\ mmCalls[c].pc = "done"
                   /\ mmCalls[c].lastId # "none"}

\* models is ordered by savedAt, most recent first
MostRecentFirst(models) ==
  \A m, n \in 1..Len(models) : m < n => models[m].savedAt >= models[n].savedAt

\* C11: after a saveModel(model) call has completed, listModels() returns a
\* list that contains an entry for the saved model, ordered by savedAt with
\* the most recent first.
C11_ListModelsHasSavedModel ==
  \A c \in ListsAfterSave :
    /\ \E n \in 1..Len(mmCalls[c].result.value) :
         mmCalls[c].result.value[n].id = mmCalls[c].lastId
    /\ MostRecentFirst(mmCalls[c].result.value)

\* C12: with the database opened by initializeIndexedDB,
\* saveTrainingSession(data) resolves with a session id, and
\* loadTrainingSession(id) with that id returns the saved session data.
C12_SessionRoundTrip ==
  \A c \in CallIds :
    /\ (mmCalls[c].kind = "saveSession" /\ mmCalls[c].dbOpen
          /\ mmCalls[c].pc \in {"done", "failed"})
         => /\ mmCalls[c].result.status = "ok"
            /\ mmCalls[c].result.value \in SessionIds
    /\ (mmCalls[c].kind = "loadSession" /\ mmCalls[c].known
          /\ mmCalls[c].pc \in {"done", "failed"})
         => mmCalls[c].result = [status |-> "ok", value |-> mmCalls[c].knownData]

\* C13: the tensors of a mini-batch are released at the end of its step
\* whether the step succeeds or throws, and when train() has returned or
\* thrown no tensor it created remains undisposed.
C13_TensorsReleased ==
  \A t \in TrainIds :
    /\ bcCalls[t].pc # "afterBatch" => bcCalls[t].batchTensors = 0
    /\ bcCalls[t].pc \in {"done", "failed"} => bcCalls[t].tensors = 0

\* C14: train() fails, before any optimizer step and before any onProgress
\* call, whenever the declared sizes of the dataset or any step of any
\* episode disagrees with the sizes of the policy agent.
C14_ShapeMismatchIsFatal ==
  \A t \in TrainIds :
    bcCalls[t].mismatch =>
      /\ bcCalls[t].pc = "failed"
      /\ bcCalls[t].steps = 0
      /\ bcCalls[t].progress = 0

\* C21: in a train() call at most YieldEvery (10) mini-batch updates follow
\* one another without a yield to the event loop between them.
C21_BoundedYieldCadence ==
  \A t \in TrainIds : bcCalls[t].sinceYield <= YieldEvery

\* C21 witness: a call has yielded after the eleventh mini-batch of an
\* epoch, ten updates after its previous yield, and goes on with the twelfth
C21_Witness ==
  \E t \in TrainIds :
    /\ bcCalls[t].pc = "afterBatch"
    /\ bcCalls[t].i = YieldEvery + 1
    /\ bcCalls[t].sinceYield = 1

\* C22: train() on a dataset whose training split is empty does not throw,
\* makes no optimizer step, and reports trainLoss = 0 and valLoss = 0.
C22_EmptyInputIsNoOp ==
  \A t \in TrainIds :
    bcCalls[t].emptyInput =>
      /\ bcCalls[t].pc # "failed"
      /\ bcCalls[t].steps = 0
      /\ bcCalls[t].reported = [trainLoss |-> "0", valLoss |-> "0"]

\* C15: with showCompletionRate = false the completion rate chart is never
\* created or shown by any sequence of updateMetrics calls; with the default
\* (true) it is created and shown on the first charted update.
C15_ShowCompletionRateControlsChart ==
  /\ ~tvShowCompletionRate => ~tvCharts["completion"].created
  /\ (tvShowCompletionRate /\ tvIsInitialized) =>
       (tvCharts["completion"].created <=> tvCharts["reward"].created)

(***************************************************************************)
(* NetworkUtils                                                            *)
(* serializeNetwork and loadNetworkFromSerialized are pure: the model gives *)
(* them an architecture and a model, and applies one after the other.      *)
(***************************************************************************)
\* NetworkArchitecture
Architectures ==
  [inputSize : {1, 2},
   hiddenLayers : UNION {[1..n -> 1..MaxUnits] : n \in 0..MaxHiddenLayers},
   outputSize : {1, 2},
   activation : {"relu"}]

\* an exception leaves the function instead of a value
ThrowsError == [threw |-> TRUE]

\* the product of the dimensions of a shape
RECURSIVE SizeFromShape(_)
SizeFromShape(shape) ==
  IF shape = <<>> THEN 1 ELSE Head(shape) * SizeFromShape(Tail(shape))

\* the dense layers tf.sequential() holds after the model.add calls of
\* loadNetworkFromSerialized: units, activation and name of each
LayersOf(architecture) ==
  LET hidden == architecture.hiddenLayers
  IN <<[units |-> hidden[1], activation |-> architecture.activation,
        name |-> <<"input_layer">>]>>
     \o [i \in 1..(Len(hidden) - 1) |->
           [units |-> hidden[i + 1], activation |-> architecture.activation,
            name |-> <<"hidden_layer_", i>>]]
     \o <<[units |-> architecture.outputSize, activation |-> "linear",
           name |-> <<"output_layer">>]>>

\* the shapes of getWeights() of dense layers with these units on an input
\* of inputSize: kernel and bias of each layer, in order
WeightShapes(inputSize, units) ==
  LET sizes == <<inputSize>> \o units
  IN [n \in 1..(2 * Len(units)) |->
        IF n % 2 = 1 THEN <<sizes[(n + 1) \div 2], sizes[(n + 1) \div 2 + 1]>>
        ELSE <<sizes[n \div 2 + 1]>>]

\* a tensor: its values are told apart by the tensor and the position
Tensor(tag, n, shape) ==
  [data |-> [k \in 1..SizeFromShape(shape) |-> <<tag, n, k>>],
   shape |-> shape, dtype |-> "float32"]

\* w.dataSync(), Array.from(typedArray) and tf.tensor(data, shape, dtype)
\* keep the float32 values
dataSync(tensor) == tensor.data
ArrayFrom(typedArray) == typedArray

\* tf.tensor(data, shape, dtype): throws when the values do not fill the shape
tensor(w) ==
  IF Len(w.data) = SizeFromShape(w.shape)
  THEN [data |-> w.data, shape |-> w.shape, dtype |-> w.dtype]
  ELSE ThrowsError

\* A trained dense network built for an architecture: a hidden layer per
\* entry of hiddenLayers and an output layer.
TrainedModel(architecture) ==
  LET units == architecture.hiddenLayers \o <<architecture.outputSize>>
      shapes == WeightShapes(architecture.inputSize, units)
  IN [units |-> units,
      weights |-> [n \in 1..Len(shapes) |-> Tensor("trained", n, shapes[n])]]

\* serializeNetwork(model, architecture)
serializeNetwork(model, architecture) ==
  [architecture |-> architecture,
   weights |-> [n \in 1..Len(model.weights) |->
                  [data |-> ArrayFrom(dataSync(model.weights[n])),
                   shape |-> model.weights[n].shape,
                   dtype |-> model.weights[n].dtype]]]

\* model.setWeights left out
setWeightsSkipped(model, weightTensors) == model

\* model.setWeights(weightTensors): throws unless there is a tensor of the
\* right shape for every weight of the model
setWeights(model, weightTensors) ==
  IF /\ \A n \in 1..Len(weightTensors) : weightTensors[n] # ThrowsError
     /\ Len(weightTensors) = Len(model.weights)
     /\ \A n \in 1..Len(weightTensors) : weightTensors[n].shape = model.weights[n].shape
  THEN [model EXCEPT !.weights = weightTensors]
  ELSE ThrowsError

\* loadNetworkFromSerialized(serializedData)
loadNetworkFromSerialized(serializedData) ==
  LET architecture == serializedData.architecture
      weights == serializedData.weights
  IN IF architecture.hiddenLayers = <<>>
     THEN \* tf.layers.dense({units: undefined, ...})
          ThrowsError
     ELSE LET layers == LayersOf(architecture)
              units == [n \in 1..Len(layers) |-> layers[n].units]
              shapes == WeightShapes(architecture.inputSize, units)
              model == [layers |-> layers,
                        weights |-> [n \in 1..Len(shapes) |->
                                       Tensor("initial", n, shapes[n])]]
          IN IF Len(weights) > 0
             THEN setWeights(model, [n \in 1..Len(weights) |-> tensor(weights[n])])
             ELSE model

NoNetwork == [none |-> TRUE]

\* an architecture and a model, before serializeNetwork is called
NuGiven(architecture, model) ==
  /\ nuArchitecture = architecture
  /\ nuModel = model
  /\ nuSerialized = NoNetwork
  /\ nuLoaded = NoNetwork
  /\ nuPc = "start"

NuInit ==
  \E a \in Architectures, b \in Architectures : NuGiven(a, TrainedModel(b))

\* NetworkUtils when another class is run
NuIdle ==
  LET a == [inputSize |-> 1, hiddenLayers |-> <<1>>, outputSize |-> 1,
            activation |-> "relu"]
  IN NuGiven(a, TrainedModel(a))

NuSerializeNetwork ==
  /\ nuPc = "start"
  /\ nuSerialized' = serializeNetwork(nuModel, nuArchitecture)
  /\ nuPc' = "serialized"
  /\ UNCHANGED <<nuFrame, nuArchitecture, nuModel, nuLoaded>>

NuLoadNetworkFromSerialized ==
  /\ nuPc = "serialized"
  /\ nuLoaded' = loadNetworkFromSerialized(nuSerialized)
  /\ nuPc' = "loaded"
  /\ UNCHANGED <<nuFrame, nuArchitecture, nuModel, nuSerialized>>

NuNext ==
  \/ NuSerializeNetwork
  \/ NuLoadNetworkFromSerialized

\* the loaded model has the given architecture and the weights of the
\* original model; the architecture record is carried through
RoundTripped ==
  /\ nuSerialized.architecture = nuArchitecture
  /\ nuLoaded # ThrowsError
  /\ Len(nuLoaded.layers) = Len(nuArchitecture.hiddenLayers) + 1
  /\ \A n \in 1..Len(nuArchitecture.hiddenLayers) :
       /\ nuLoaded.layers[n].units = nuArchitecture.hiddenLayers[n]
       /\ nuLoaded.layers[n].activation = nuArchitecture.activation
  /\ nuLoaded.layers[Len(nuLoaded.layers)].units = nuArchitecture.outputSize
  /\ nuLoaded.layers[Len(nuLoaded.layers)].activation = "linear"
  /\ Len(nuLoaded.weights) = Len(nuModel.weights)
  /\ \A n \in 1..Len(nuModel.weights) :
       /\ nuLoaded.weights[n].data = nuModel.weights[n].data
       /\ nuLoaded.weights[n].shape = nuModel.weights[n].shape
       /\ nuLoaded.weights[n].dtype = nuModel.weights[n].dtype

RolloutIds == 1..NumRollouts

\* a rollout that has not been started in this iteration
NoRollout == [steps |-> 0, status |-> "idle", done |-> FALSE]

\* every rollout targeted for the iteration has finished
AllRolloutsFinished(rollouts) ==
  \A r \in RolloutIds : rollouts[r].status = "finished"

\* a rollout targeted for the iteration has finished
SomeRolloutFinished(rollouts) ==
  \E r \in RolloutIds : rollouts[r].status = "finished"

\* the optimization phase starts as soon as one rollout has finished
CollectionOpen(rollouts) == SomeRolloutFinished(rollouts)

\* the optimization phase may start on these rollouts
CollectionClosed(rollouts) == AllRolloutsFinished(rollouts)

\* start() from any state but Running
startAlways(state) == state # "Running"

\* start() is accepted only by an initialized session that never ran
startAccepted(state) == state = "Initializing"

\* gamesCompleted after a rollout that ended, by done or not
countRollout(games, done) == games + 1

\* gamesCompleted after an environment step
countGame(games, done) == IF done THEN games + 1 ELSE games

\* the loop may take its next step: the session runs, or a pause request
\* has not been observed yet and the iteration is in flight
CanStep ==
  \/ tsLifecycleState = "Running"
  \/ tsLifecycleState = "Paused" /\ ~tsParked /\ tsPhase # "boundary"

TsConstructed ==
  /\ tsLifecycleState = "Idle"
  /\ tsPhase = "boundary"
  /\ tsRollouts = [r \in RolloutIds |-> NoRollout]
  /\ tsTrainStep = 0
  /\ tsGamesCompleted = 0
  /\ tsParked = FALSE
  /\ tsObs = [dones |-> 0, last |-> "new", refused |-> FALSE,
              resumedInCollection |-> FALSE, iterations |-> 0]

TsInit == TsConstructed

TsIdle == TsConstructed

\* a call of the host is recorded
Called(name, refused) ==
  [tsObs EXCEPT !.last = name, !.refused = refused]

\* initialize(): a no-op when already initialized
TsInitialize ==
  /\ tsLifecycleState' =
       IF tsLifecycleState = "Idle" THEN "Initializing" ELSE tsLifecycleState
  /\ tsObs' = Called("initialize", FALSE)
  /\ UNCHANGED <<tsFrame, tsPhase, tsRollouts, tsTrainStep, tsGamesCompleted,
                 tsParked>>

\* start(): refused with a state conflict unless initialized and never run
TsStart ==
  /\ IF startAccepted(tsLifecycleState)
     THEN /\ tsLifecycleState' = "Running"
          /\ tsParked' = FALSE
          /\ tsObs' = Called("start", FALSE)
     ELSE /\ tsObs' = Called("start", TRUE)
          /\ UNCHANGED <<tsLifecycleState, tsParked>>
  /\ UNCHANGED <<tsFrame, tsPhase, tsRollouts, tsTrainStep, tsGamesCompleted>>

\* pause(): Running -> Paused; the loop observes it at a later yield point
TsPause ==
  /\ IF tsLifecycleState = "Running"
     THEN /\ tsLifecycleState' = "Paused"
          /\ tsObs' = Called("pause", FALSE)
     ELSE /\ tsObs' = Called("pause", TRUE)
          /\ UNCHANGED tsLifecycleState
  /\ UNCHANGED <<tsFrame, tsPhase, tsRollouts, tsTrainStep, tsGamesCompleted,
                 tsParked>>

\* resume(): Paused -> Running; buffered trajectories are kept and the loop
\* continues from where it waited
TsResume ==
  /\ IF tsLifecycleState = "Paused"
     THEN /\ tsLifecycleState' = "Running"
          /\ tsParked' = FALSE
          /\ tsObs' = [Called("resume", FALSE) EXCEPT !.resumedInCollection =
                         \/ @
                         \/ /\ tsParked
                            /\ tsPhase = "collect"
                            /\ SomeRolloutFinished(tsRollouts)
                            /\ ~AllRolloutsFinished(tsRollouts)]
     ELSE /\ tsObs' = Called("resume", TRUE)
          /\ UNCHANGED <<tsLifecycleState, tsParked>>
  /\ UNCHANGED <<tsFrame, tsPhase, tsRollouts, tsTrainStep, tsGamesCompleted>>

\* stop(): Stopped, from any state
TsStop ==
  /\ tsLifecycleState' = "Stopped"
  /\ tsObs' = Called("stop", FALSE)
  /\ UNCHANGED <<tsFrame, tsPhase, tsRollouts, tsTrainStep, tsGamesCompleted,
                 tsParked>>

\* the loop observes the pause request at a yield point and waits
TsPark ==
  /\ tsLifecycleState = "Paused"
  /\ ~tsParked
  /\ tsParked' = TRUE
  /\ UNCHANGED <<tsFrame, tsLifecycleState, tsPhase, tsRollouts, tsTrainStep,
                 tsGamesCompleted, tsObs>>

\* an iteration starts: every environment instance is reset
TsBeginCollection ==
  /\ tsLifecycleState = "Running"
  /\ tsPhase = "boundary"
  /\ tsGamesCompleted < MaxGames
  /\ tsPhase' = "collect"
  /\ tsRollouts' = [r \in RolloutIds |-> [NoRollout EXCEPT !.status = "running"]]
  /\ UNCHANGED <<tsFrame, tsLifecycleState, tsTrainStep, tsGamesCompleted,
                 tsParked, tsObs>>

\* one environment step of one instance; the rollout ends when the
\* environment reports done or the step budget is reached
TsEnvStep(r, done) ==
  /\ CanStep
  /\ tsPhase = "collect"
  /\ tsRollouts[r].status = "running"
  /\ tsRollouts' = [tsRollouts EXCEPT ![r] =
       [steps |-> @.steps + 1,
        status |-> IF done \/ @.steps + 1 = MaxRolloutSteps
                   THEN "finished" ELSE "running",
        done |-> done]]
  /\ tsGamesCompleted' = countGame(tsGamesCompleted, done)
  /\ tsObs' = [tsObs EXCEPT !.dones = IF done THEN @ + 1 ELSE @]
  /\ UNCHANGED <<tsFrame, tsLifecycleState, tsPhase, tsTrainStep, tsParked>>

\* the optimization phase starts on the closed set of trajectories
TsBeginTraining ==
  /\ CanStep
  /\ tsPhase = "collect"
  /\ CollectionClosed(tsRollouts)
  /\ tsPhase' = "train"
  /\ tsTrainStep' = 0
  /\ UNCHANGED <<tsFrame, tsLifecycleState, tsRollouts, tsGamesCompleted,
                 tsParked, tsObs>>

\* one mini-batch step
TsTrainStep ==
  /\ CanStep
  /\ tsPhase = "train"
  /\ tsTrainStep < MaxTrainSteps
  /\ tsTrainStep' = tsTrainStep + 1
  /\ UNCHANGED <<tsFrame, tsLifecycleState, tsPhase, tsRollouts,
                 tsGamesCompleted, tsParked, tsObs>>

\* the optimization phase is complete: progress is reported, the
\* trajectories are dropped, and the loop is at an iteration boundary
TsEndIteration ==
  /\ CanStep
  /\ tsPhase = "train"
  /\ tsTrainStep = MaxTrainSteps
  /\ tsPhase' = "boundary"
  /\ tsTrainStep' = 0
  /\ tsRollouts' = [r \in RolloutIds |-> NoRollout]
  /\ tsObs' = [tsObs EXCEPT !.iterations = 1]
  /\ UNCHANGED <<tsFrame, tsLifecycleState, tsGamesCompleted, tsParked>>

\* maxGames is reached: the loop ends
TsComplete ==
  /\ tsLifecycleState = "Running"
  /\ tsPhase = "boundary"
  /\ tsGamesCompleted >= MaxGames
  /\ tsLifecycleState' = "Stopped"
  /\ UNCHANGED <<tsFrame, tsPhase, tsRollouts, tsTrainStep, tsGamesCompleted,
                 tsParked, tsObs>>

TsNext ==
  \/ TsInitialize
  \/ TsStart
  \/ TsPause
  \/ TsResume
  \/ TsStop
  \/ TsPark
  \/ TsBeginCollection
  \/ \E r \in RolloutIds, done \in BOOLEAN : TsEnvStep(r, done)
  \/ TsBeginTraining
  \/ TsTrainStep
  \/ TsEndIteration
  \/ TsComplete

\* C17: once the session is Stopped it stays Stopped, and no environment
\* step, no optimization step and no change of gamesCompleted follows,
\* whatever the host calls.
C17_StopIsTerminal ==
  [][tsLifecycleState = "Stopped" =>
       /\ tsLifecycleState' = "Stopped"
       /\ UNCHANGED <<tsPhase, tsRollouts, tsTrainStep, tsGamesCompleted>>]_vars

\* C17 witness: a session stopped in the middle of an iteration has
\* refused a later start()
C17_Witness ==
  /\ tsLifecycleState = "Stopped"
  /\ tsPhase = "collect"
  /\ tsObs.last = "start"
  /\ tsObs.refused

\* C18: while the optimization phase is in progress every rollout of the
\* iteration has finished, and while a rollout is in progress no
\* optimization step has been taken.
C18_CollectThenTrain ==
  /\ tsPhase = "train" => AllRolloutsFinished(tsRollouts)
  /\ (\E r \in RolloutIds : tsRollouts[r].status = "running") =>
       tsPhase = "collect" /\ tsTrainStep = 0
  /\ tsPhase # "train" => tsTrainStep = 0

\* C18 witness: the second collection is in progress after a completed
\* optimization phase, one rollout finished and the other still running
C18_Witness ==
  /\ tsObs.iterations = 1
  /\ tsPhase = "collect"
  /\ \E r \in RolloutIds : tsRollouts[r].status = "running"
  /\ \E r \in RolloutIds : tsRollouts[r].status = "finished"

\* C19: gamesCompleted is the number of done transitions of the
\* environment seen so far.
C19_GamesAreDoneTransitions == tsGamesCompleted = tsObs.dones

\* C19 witness: a session paused during a collection, after one game had
\* ended, was resumed and has seen a second game end
C19_Witness ==
  /\ tsObs.resumedInCollection
  /\ tsObs.dones = 2
  /\ tsPhase = "collect"

Init ==
  /\ DcInit
  /\ DsInit
  /\ TvInit
  /\ MmInit
  /\ BcInit
  /\ NuInit
  /\ TsInit

InitDC == DcInit /\ DsIdle /\ TvIdle /\ MmIdle /\ BcIdle /\ NuIdle /\ TsIdle

InitDS == DsInit /\ DcIdle /\ TvIdle /\ MmIdle /\ BcIdle /\ NuIdle /\ TsIdle

InitTV == TvInit /\ DcIdle /\ DsIdle /\ MmIdle /\ BcIdle /\ NuIdle /\ TsIdle

InitMM == MmInit /\ DcIdle /\ DsIdle /\ TvIdle /\ BcIdle /\ NuIdle /\ TsIdle

InitBC == BcInit /\ DcIdle /\ DsIdle /\ TvIdle /\ MmIdle /\ NuIdle /\ TsIdle

InitTS == TsInit /\ DcIdle /\ DsIdle /\ TvIdle /\ MmIdle /\ BcIdle /\ NuIdle

InitBCL == BcLongInit /\ DcIdle /\ DsIdle /\ TvIdle /\ MmIdle /\ NuIdle /\ TsIdle

InitNU == NuInit /\ DcIdle /\ DsIdle /\ TvIdle /\ MmIdle /\ BcIdle /\ TsIdle

\* every class at once
Next == DcNext \/ DsNext \/ TvNext \/ MmNext \/ MsNext \/ BcThrowsNext \/ BcLongNext \/ NuNext \/ TsNext

Spec == Init /\ [][Next]_vars

SpecDC == InitDC /\ [][DcNext]_vars

SpecDS == InitDS /\ [][DsNext]_vars

SpecTV == InitTV /\ [][TvNext]_vars

SpecMM == InitMM /\ [][MmNext]_vars

SpecMS == InitMM /\ [][MsNext]_vars

SpecTS == InitTS /\ [][TsNext]_vars

SpecBCL == InitBCL /\ [][BcLongNext]_vars

SpecNU == InitNU /\ [][NuNext]_vars

SpecBCT == InitBC /\ [][BcThrowsNext]_vars

SpecBC == InitBC /\ [][BcNext]_vars

\* The event loop runs a pending microtask, delivers a posted message and
\* fires a timer that is due.
LiveSpecBC ==
  SpecBC /\ WF_vars(BcMicrotask) /\ WF_vars(BcMessage) /\ WF_vars(BcTimer)

=============================================================================
